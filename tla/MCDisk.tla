------------------------------- MODULE MCDisk -------------------------------
(* A disk, a drive of packets and a bus with nothing on it. *)
EXTENDS Disk

MCPorts == {"1F0", "170", "1E8"}
MCDrives == {"1F0", "170"}
MCPacket == {"170"}
=============================================================================
