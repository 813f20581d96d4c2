-------------------------------- MODULE Disk --------------------------------
(***************************************************************************)
(* The ATA driver (ata.c) polling a drive of each bus.  A drive raises BSY *)
(* for a command, and then DRQ or ERR; it drops DRQ with the last word of  *)
(* the sector, and ignores a command while it has BSY or DRQ.  What the    *)
(* words say is left out: a transfer is a number of words.                 *)
(*                                                                         *)
(* A call is a plan of stages, of which the first is under way.            *)
(***************************************************************************)
EXTENDS Integers, Sequences

CONSTANTS
    Ports,            \* the port bases
    PRIMARY,          \* ATA_PRIMARY_MASTER_PORT, one of them
    Drives,           \* those of them with a drive; the others float
    Packet,           \* the drives with an ATAPI signature
    Sectors,          \* the sectors that are asked for
    NIBBLE,           \* 2^24: the sectors for each value of the top bits
    MAX_ADDRESSABLE,  \* 2^28 - 1
    WORDS,            \* words of a sector
    MODEL_WORDS       \* of these, the words ATA_Identify reads

\* What a device port is given: the command's kind, master or slave, top bits of a sector.
Select(kind, master, top) == [kind |-> kind, master |-> master, top |-> top]
NoDevice == Select("none", FALSE, 0)

VARIABLES
    drive,          \* each port's drive: [status, selected, left]
    g_last_device,
    handlers,       \* int14_on, int15_on
    plan,           \* the stages of the call, the one under way first
    port, device,   \* its ATA structure, and the device it selects
    status,         \* the status it last read
    polls_ignored,
    words           \* the words it has still to transfer

vars == <<drive, g_last_device, handlers, plan, port, device, status, polls_ignored, words>>

Init ==
    /\ drive = [p \in Ports |-> [status |-> {}, selected |-> NoDevice, left |-> 0]]
    /\ g_last_device = NoDevice /\ handlers = FALSE
    /\ plan = <<>> /\ port = PRIMARY /\ device = NoDevice
    /\ status = {} /\ polls_ignored = 4 /\ words = 0

\* 0xFF where nothing drives the bus: every bit is set.
Status(p) == IF p \in Drives THEN drive[p].status ELSE {"BSY", "DRQ", "ERR"}

-----------------------------------------------------------------------------
(* The calls *)

Rest == plan = <<>>

\* Two of the drive's interrupts, which stay masked, get a handler at the first call.
ATA_Init ==
    /\ Rest /\ ~ handlers
    /\ handlers' = TRUE
    /\ UNCHANGED <<drive, g_last_device, plan, port, device, status, polls_ignored, words>>

Call(p, want, stages) ==
    /\ Rest /\ handlers
    /\ port' = p /\ device' = want /\ plan' = stages /\ status' = {}
    /\ UNCHANGED <<drive, g_last_device, handlers, polls_ignored, words>>

ATA_Identify(p) ==
    Call(p, Select("id", p = PRIMARY, 0),
         <<"select", "floating", "command", "kind", "busy", "strict", "model">>)

\* A sector of more than 28 bits is refused, and so is a count that does not fit in a
\* sector: such a call has no stages.
Transmit(p, sector, fits, stages) ==
    Call(p, Select("lba", p = PRIMARY, (sector \div NIBBLE) % 16),
         IF sector <= MAX_ADDRESSABLE /\ fits THEN stages ELSE <<>>)
ATA_Read28(p, sector, fits) ==
    Transmit(p, sector, fits,
             <<"select", "command", "busy", "lenient", "sector", "busy", "strict">>)
ATA_Write28(p, sector, fits) ==
    Transmit(p, sector, fits,
             <<"select", "command", "busy", "lenient", "sector", "busy", "lenient",
               "command", "busy", "lenient">>)

-----------------------------------------------------------------------------
(* The stages *)

At(stage) == plan # <<>> /\ Head(plan) = stage
NextStage == plan' = Tail(plan)

ATA_Dev_select ==
    /\ At("select") /\ NextStage
    /\ drive' = IF g_last_device = device THEN drive
                ELSE [drive EXCEPT ![port].selected = device]
    /\ g_last_device' = device
    /\ UNCHANGED <<handlers, port, device, status, polls_ignored, words>>

\* The bus of ATA_Identify floats, or its drive is not one for this command.
Floating ==
    /\ At("floating")
    /\ plan' = IF port \in Drives THEN Tail(plan) ELSE <<>>
    /\ UNCHANGED <<drive, g_last_device, handlers, port, device, status, polls_ignored, words>>
Kind ==
    /\ At("kind")
    /\ plan' = IF status = {} \/ port \in Packet THEN <<>> ELSE Tail(plan)
    /\ UNCHANGED <<drive, g_last_device, handlers, port, device, status, polls_ignored, words>>

Command ==
    /\ At("command") /\ NextStage
    /\ drive' = IF port \notin Drives \/ drive[port].status \cap {"BSY", "DRQ"} # {} THEN drive
                ELSE [drive EXCEPT ![port].status = {"BSY"}]
    /\ status' = IF port \in Drives THEN drive'[port].status ELSE Status(port)
    /\ polls_ignored' = 4
    /\ UNCHANGED <<g_last_device, handlers, port, device, words>>

PollBusy ==
    /\ At("busy")
    /\ IF "BSY" \in status THEN status' = Status(port) /\ UNCHANGED plan
       ELSE NextStage /\ UNCHANGED status
    /\ UNCHANGED <<drive, g_last_device, handlers, port, device, polls_ignored, words>>

\* The uint8_t counts down from 4 and is never less than 0: no error ends the loop.
PollLenient ==
    /\ At("lenient")
    /\ IF "DRQ" \in status THEN NextStage /\ words' = WORDS /\ UNCHANGED <<status, polls_ignored>>
       ELSE IF "ERR" \in status /\ polls_ignored < 0
       THEN plan' = <<>> /\ UNCHANGED <<words, status, polls_ignored>>
       ELSE /\ status' = Status(port) /\ polls_ignored' = (polls_ignored - 1) % 256
            /\ UNCHANGED <<plan, words>>
    /\ UNCHANGED <<drive, g_last_device, handlers, port, device>>
PollStrict ==
    /\ At("strict")
    /\ CASE "DRQ" \in status -> NextStage /\ words' = MODEL_WORDS /\ UNCHANGED status
         [] "DRQ" \notin status /\ "ERR" \in status -> plan' = <<>> /\ UNCHANGED <<words, status>>
         [] OTHER -> status' = Status(port) /\ UNCHANGED <<plan, words>>
    /\ UNCHANGED <<drive, g_last_device, handlers, port, device, polls_ignored>>

\* One word; the status is read when the sector is through.
Transfer ==
    /\ At("sector") \/ At("model")
    /\ words' = words - 1
    /\ drive' = IF port \in Drives /\ drive[port].left > 0
                THEN [drive EXCEPT ![port].left = @ - 1,
                                   ![port].status = IF drive[port].left = 1 THEN @ \ {"DRQ"} ELSE @]
                ELSE drive
    /\ IF words = 1 THEN NextStage /\ status' = (IF port \in Drives THEN drive'[port].status ELSE Status(port))
       ELSE UNCHANGED <<plan, status>>
    /\ polls_ignored' = 4
    /\ UNCHANGED <<g_last_device, handlers, port, device>>

-----------------------------------------------------------------------------
\* The drive answers a command: with its data, or with an error.
Answer(p) ==
    /\ "BSY" \in drive[p].status
    /\ \/ drive' = [drive EXCEPT ![p].status = {"DRQ"}, ![p].left = WORDS]
       \/ drive' = [drive EXCEPT ![p].status = {"ERR"}]
    /\ UNCHANGED <<g_last_device, handlers, plan, port, device, status, polls_ignored, words>>

Stage ==
    \/ ATA_Dev_select \/ Floating \/ Kind \/ Command \/ PollBusy \/ PollLenient \/ PollStrict
    \/ Transfer
Next ==
    \/ ATA_Init \/ Stage
    \/ \E p \in Ports :
        \/ ATA_Identify(p)
        \/ \E sector \in Sectors, fits \in BOOLEAN :
            ATA_Read28(p, sector, fits) \/ ATA_Write28(p, sector, fits)
    \/ \E p \in Drives : Answer(p)
Spec == Init /\ [][Next]_vars /\ WF_vars(Stage) /\ \A p \in Drives : WF_vars(Answer(p))

-----------------------------------------------------------------------------
\* An error that a drive answers a command with ends the call, which reports it:
\* "next poll for DRQ (0x08) or ERR (0x01) bits being set, but ignore first 4 ERR
\* polls" (ata.c:179, 257, 299, 318).
ErrorEndsCall == (~ Rest /\ "ERR" \in status /\ port \in Drives) ~> Rest
=============================================================================
