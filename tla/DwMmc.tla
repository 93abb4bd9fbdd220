---- MODULE DwMmc ----
\* The SD card driver os/drivers/dw_mmc.c in FIFO mode, against a DesignWare MMC
\* controller with a card behind it.
\*
\* The driver polls: it writes registers and reads them until a bit changes or it gives
\* up, while the controller goes on by itself.  Every read of a status register is a
\* step, so that the controller may change it before the next one.  A wait gives up
\* after MaxPolls reads (the retry counters of the code) or, where the code compares
\* get_timer with a limit, possibly earlier.
\*
\* The controller (external, as the driver's use of the registers implies): a RINTSTS bit
\* stays set until a one is written to it; UPD_CLK loads CLKENA and CLKDIV into the
\* clock; with PRV_DAT_WAIT a command waits for the transfer before it.  The callers (the
\* MMC core, not in the repository) use a host once dwmci_init has succeeded, one
\* operation at a time.  Left out: responses, bus width, DDR, power, the host callbacks.
EXTENDS Integers, Sequences, FiniteSets

CONSTANTS
    DEPTH,      \* words in the FIFO
    BusHz,      \* possible values of host->bus_hz
    Freq, FMin, \* the frequencies the callers ask for, and mmc->cfg->f_min
    Sizes,      \* the possible lengths of a transfer, in words
    PHASES,     \* sampling phases (32 in the code)
    MaxPolls,   \* bound on the reads of one wait
    MaxCalls    \* bound on the operations the callers start

ASSUME DepthAssumption == DEPTH \in Nat \ {0} /\ DEPTH % 2 = 0
ASSUME ClockAssumption == BusHz \subseteq Nat /\ Freq \subseteq Nat /\ FMin \in Freq \ {0}
ASSUME BoundAssumption == MaxPolls \in Nat \ {0} /\ MaxCalls \in Nat /\ PHASES \in Nat \ {0} /\ Sizes \subseteq Nat \ {0}

VARIABLES
    pc, polls,  \* the driver, and the reads of the present wait
    calls,      \* operations started
    loc,        \* its local variables
    host,       \* struct dwmci_host, and whether dwmci_init has succeeded
    reg,        \* registers
    ctl,        \* the controller: its command, its transfer, the clock
    hist        \* history of the present command, for the properties

vars == <<pc, polls, calls, loc, host, reg, ctl, hist>>

Bits == {"CDONE", "RTO", "RE", "RCRC", "RXDR", "TXDR", "DTO", "DATA_ERR"}
Off == -1       \* no clock

\* Arguments of dwmci_send_cmd: direction and words of the data, whether resp_type has
\* MMC_RSP_CRC, whether it is one of 136 bits with busy, whether the command is CMD12.
Command ==
    [data : {"none"}, words : {0}, crc : BOOLEAN, r136busy : {FALSE}, stop : {FALSE}]
    \cup [data : {"none"}, words : {0}, crc : {TRUE}, r136busy : {TRUE}, stop : {FALSE}]
    \cup [data : {"none"}, words : {0}, crc : {TRUE}, r136busy : {FALSE}, stop : {TRUE}]
    \cup [data : {"read", "write"}, words : Sizes, crc : {TRUE}, r136busy : {FALSE}, stop : {FALSE}]
NoCommand == [data |-> "none", words |-> 0, crc |-> FALSE, r136busy |-> FALSE, stop |-> FALSE]

NoLocals == [cmd |-> NoCommand, mask |-> {}, size |-> 0, rounds |-> 0, freq |-> 0, then |-> "idle", ret |-> "0",
             i |-> 0, smpl_raise |-> -1, smpl_fall |-> -1, phase |-> 0, good |-> {}]
NoHistory == [buf |-> <<>>, stored |-> 0, bad |-> FALSE, clean |-> FALSE]
Quiet == [active |-> FALSE, cmd |-> NoCommand, init |-> FALSE, xfer |-> "none", left |-> 0]

PC == {"idle", "return", "setup", "upd1", "upd2", "init_rest", "ios_rest", "busy", "issue", "cdone",
       "mask", "clear_rx", "drain", "fill", "check", "tune", "tune_end"}

Results == {"0", "-1", "EIO", "EINVAL", "ETIMEDOUT"}
Locals ==
    [cmd : Command, mask : SUBSET Bits, size : Nat, rounds : 0 .. MaxPolls,
     freq : Freq \cup {0}, then : {"idle", "init_rest", "ios_rest"}, ret : Results,
     i : 0 .. PHASES, smpl_raise : -1 .. PHASES - 1, smpl_fall : -1 .. PHASES - 1,
     phase : 0 .. PHASES - 1, good : SUBSET (0 .. PHASES - 1)]
Host ==
    [clock : Freq \cup {0}, bus_hz : BusHz, need_init : BOOLEAN,
     fifoth_val : -1 .. DEPTH - 1, ready : BOOLEAN]
Words == Seq({"old", "new"})
Registers ==
    [rintsts : SUBSET Bits, fifo : Words, fifoth : -1 .. DEPTH - 1, clkena : BOOLEAN, clkdiv : Nat]

\* A command as the controller sees it: checking the CRC is the driver's business.
Sent(c) == [c EXCEPT !.crc = FALSE]
Transfer ==
    [active : BOOLEAN, init : BOOLEAN,
     cmd : [data : {"none", "read", "write"}, words : Nat, crc : {FALSE}, r136busy : BOOLEAN, stop : BOOLEAN],
     xfer : {"none", "read", "write"}, left : Nat]
Device == [tr : Transfer, upd : BOOLEAN, clk : Nat \cup {Off}, started : BOOLEAN, clk_lost : BOOLEAN]
History == [buf : Words, stored : Nat, bad : BOOLEAN, clean : BOOLEAN]

\* The FIFO holds at most what it has room for, the words of one command.
TypeOK ==
    /\ pc \in PC /\ calls \in 0 .. MaxCalls /\ polls \in 0 .. MaxPolls
    /\ loc \in Locals /\ loc.size <= loc.cmd.words
    /\ host \in Host
    /\ reg \in Registers /\ Len(reg.fifo) <= DEPTH
    /\ ctl \in Device
    /\ hist \in History

Init ==
    /\ pc = "idle" /\ polls = 0 /\ calls = 0 /\ loc = NoLocals
    /\ \E hz \in BusHz : host = [clock |-> 0, bus_hz |-> hz, need_init |-> FALSE,
                                 fifoth_val |-> -1, ready |-> FALSE]
    /\ reg = [rintsts |-> {}, fifo |-> <<>>, fifoth |-> DEPTH - 1,
              clkena |-> FALSE, clkdiv |-> 0]
    /\ ctl = [tr |-> Quiet, upd |-> FALSE, clk |-> Off, started |-> TRUE, clk_lost |-> FALSE]
    /\ hist = NoHistory
-----------------------------------------------------------------------------
Goto(l) == pc' = l /\ polls' = 0
Again == pc' = pc /\ polls' = polls + 1
LastPoll == polls = MaxPolls
Return(r) == Goto("return") /\ loc' = [loc EXCEPT !.ret = r]
Writel(bits) == reg' = [reg EXCEPT !.rintsts = @ \ bits]    \* ones written to RINTSTS

\* dwmci_init, as far as setup_bus.  dwmci_wait_reset ends when the bits have cleared,
\* or after 1000 reads: whether they clear in time is up to the controller.
dwmci_init ==
    /\ pc = "idle"
    /\ \/ /\ ctl' = [ctl EXCEPT !.tr = Quiet, !.upd = FALSE, !.started = FALSE]
          /\ reg' = [reg EXCEPT !.fifo = <<>>]
          /\ host' = [host EXCEPT !.need_init = TRUE, !.ready = FALSE]
          /\ loc' = [loc EXCEPT !.freq = FMin, !.then = "init_rest"]
          /\ Goto("setup")
       \/ /\ host' = [host EXCEPT !.ready = FALSE]
          /\ Return("EIO")
          /\ UNCHANGED <<reg, ctl>>
    /\ UNCHANGED hist

\* Mutant of init_rest: the threshold is derived from the register every time.
init_rest_always ==
    /\ pc = "init_rest"
    /\ LET val == (reg.fifoth + 1) \div 2 - 1 IN
       /\ host' = [host EXCEPT !.fifoth_val = val, !.ready = TRUE]
       /\ reg' = [reg EXCEPT !.rintsts = {}, !.fifoth = val, !.clkena = FALSE]
    /\ Return("0")
    /\ UNCHANGED <<ctl, hist>>

\* The rest of dwmci_init: the thresholds, from the reset value of FIFOTH the first
\* time, and CLKENA.
init_rest ==
    /\ pc = "init_rest"
    /\ LET val == IF host.fifoth_val = -1 THEN (reg.fifoth + 1) \div 2 - 1 ELSE host.fifoth_val IN
       /\ host' = [host EXCEPT !.fifoth_val = val, !.ready = TRUE]
       /\ reg' = [reg EXCEPT !.rintsts = {}, !.fifoth = val, !.clkena = FALSE]
    /\ Return("0")
    /\ UNCHANGED <<ctl, hist>>
-----------------------------------------------------------------------------
\* Mutant of Divider: rounds down.
Divider_down(sclk, freq) == IF sclk = freq THEN 0 ELSE sclk \div (2 * freq)

\* DIV_ROUND_UP(sclk, 2 * freq), or bypass.  The driver writes the whole number to CLKDIV;
\* that the register has room for it is a matter of the frequencies.
Divider(sclk, freq) == IF sclk = freq THEN 0 ELSE (sclk + 2 * freq - 1) \div (2 * freq)

\* dwmci_setup_bus: nothing to do, no source clock, or the clock is switched off with
\* the new divider.  Both callers ignore the result.
setup_bus ==
    /\ pc = "setup"
    /\ IF loc.freq \in {0, host.clock} \/ host.bus_hz = 0
       THEN Goto(loc.then) /\ UNCHANGED <<reg, ctl>>
       ELSE /\ reg' = [reg EXCEPT !.clkena = FALSE, !.clkdiv = Divider(host.bus_hz, loc.freq)]
            /\ ctl' = [ctl EXCEPT !.upd = TRUE]
            /\ Goto("upd1")
    /\ UNCHANGED <<loc, host, hist>>

\* A read of CMD in the two waits for the update; then the clock is switched on, and at
\* last recorded.  The counter is tested before the bit that was read.
setup_bus_enable ==
    /\ pc \in {"upd1", "upd2"}
    /\ IF LastPoll
       THEN Goto(loc.then) /\ ctl' = [ctl EXCEPT !.clk_lost = TRUE] /\ UNCHANGED <<host, reg>>
       ELSE IF ctl.upd
       THEN Again /\ UNCHANGED <<host, reg, ctl>>
       ELSE IF pc = "upd1"
       THEN /\ reg' = [reg EXCEPT !.clkena = TRUE]
            /\ ctl' = [ctl EXCEPT !.upd = TRUE]
            /\ Goto("upd2")
            /\ UNCHANGED host
       ELSE /\ host' = [host EXCEPT !.clock = loc.freq]
            /\ ctl' = [ctl EXCEPT !.clk_lost = FALSE]
            /\ Goto(loc.then)
            /\ UNCHANGED reg
    /\ UNCHANGED <<loc, hist>>

\* dwmci_set_ios around setup_bus.
set_ios(freq) ==
    /\ pc = "idle" /\ host.ready
    /\ loc' = [loc EXCEPT !.freq = freq, !.then = "ios_rest"]
    /\ Goto("setup")
    /\ UNCHANGED <<host, reg, ctl, hist>>

\* The result of setup_bus is not the result of set_ios, which is that of clksel.
ios_rest == pc = "ios_rest" /\ Return("0") /\ UNCHANGED <<host, reg, ctl, hist>>

\* Words of a command that is over.
Old(words) == [k \in DOMAIN words |-> "old"]

\* The caller has its result.
returned ==
    /\ pc = "return"
    /\ Goto("idle") /\ loc' = NoLocals /\ hist' = NoHistory
    /\ reg' = [reg EXCEPT !.fifo = Old(@)]
    /\ UNCHANGED <<host, ctl>>
-----------------------------------------------------------------------------
dwmci_send_cmd(c) ==
    /\ pc = "idle" /\ host.ready
    /\ loc' = [loc EXCEPT !.cmd = c]
    /\ Goto("busy")
    /\ UNCHANGED <<host, reg, ctl, hist>>

\* A read of STATUS in the wait for the card; when it is free RINTSTS is cleared.
wait_busy ==
    /\ pc = "busy"
    /\ \/ Return("ETIMEDOUT") /\ UNCHANGED <<reg, hist>>
       \/ ~LastPoll /\ Again /\ UNCHANGED <<loc, reg, hist>>
       \/ /\ Writel(Bits)
          /\ hist' = [hist EXCEPT !.clean = ~ctl.tr.active /\ ctl.tr.xfer = "none"]
          /\ Goto("issue")
          /\ UNCHANGED loc
    /\ UNCHANGED <<host, ctl>>

\* CMD is written.  What the FIFO holds now is not of this command.
Issue(fifo, clean) ==
    /\ reg' = [reg EXCEPT !.fifo = Old(fifo)]
    /\ host' = [host EXCEPT !.need_init = FALSE]
    /\ ctl' = [ctl EXCEPT !.tr = [@ EXCEPT !.active = TRUE, !.init = host.need_init,
                                              !.cmd = Sent(loc.cmd)]]
    /\ hist' = [NoHistory EXCEPT !.clean = clean]
    /\ Goto("cdone")
    /\ UNCHANGED loc

\* Mutant of issue: the FIFO is not reset.
issue_keeps_fifo ==
    /\ pc = "issue"
    /\ ~loc.cmd.r136busy
    /\ Issue(reg.fifo, hist.clean)

\* Mutant of issue: the flag stays set.
issue_keeps_flag ==
    /\ pc = "issue"
    /\ ~loc.cmd.r136busy
    /\ reg' = [reg EXCEPT !.fifo = <<>>]
    /\ ctl' = [ctl EXCEPT !.tr = [@ EXCEPT !.active = TRUE, !.init = host.need_init,
                                              !.cmd = Sent(loc.cmd)]]
    /\ Goto("cdone")
    /\ UNCHANGED <<loc, host, hist>>

\* From BLKSIZ to the write of CMD.  The FIFO is reset before data, and a reset that
\* does not end is not noticed; a response of 136 bits with busy is refused.
issue ==
    /\ pc = "issue"
    /\ \/ loc.cmd.r136busy /\ Return("-1") /\ UNCHANGED <<host, reg, ctl, hist>>
       \/ ~loc.cmd.r136busy /\ loc.cmd.data = "none" /\ Issue(reg.fifo, hist.clean)
       \/ loc.cmd.data # "none" /\ Issue(<<>>, hist.clean)
       \/ loc.cmd.data # "none" /\ Issue(reg.fifo, FALSE)

\* A read of RINTSTS in the wait for the command, and what follows from it.
wait_cdone ==
    /\ pc = "cdone"
    /\ LET mask == reg.rintsts IN
       IF "CDONE" \notin mask
       THEN (IF LastPoll THEN Return("ETIMEDOUT") ELSE Again /\ UNCHANGED loc) /\ UNCHANGED reg
       ELSE /\ IF loc.cmd.data = "none" THEN Writel(mask) ELSE UNCHANGED reg
            /\ IF "RTO" \in mask THEN Return("ETIMEDOUT")
               ELSE IF "RE" \in mask \/ (loc.cmd.crc /\ "RCRC" \in mask) THEN Return("EIO")
               ELSE IF loc.cmd.data = "none" THEN Return("0")
               ELSE Goto("mask") /\ loc' = [loc EXCEPT !.size = loc.cmd.words]
    /\ UNCHANGED <<host, ctl, hist>>
-----------------------------------------------------------------------------
\* dwmci_data_transfer: the end of the transfer, with RINTSTS cleared of what was seen.
Finish(mask, r) == Writel(mask) /\ Return(r)

\* The read of RINTSTS at the head of the loop, and what it calls for.
read_mask ==
    /\ pc = "mask"
    /\ LET mask == reg.rintsts IN
       IF "DATA_ERR" \in mask
       THEN Finish(mask, "EINVAL")
       ELSE /\ loc' = [loc EXCEPT !.mask = mask]
            /\ Goto(CASE loc.size > 0 /\ loc.cmd.data = "read" /\ mask \cap {"RXDR", "DTO"} # {} -> "clear_rx"
                      [] loc.size > 0 /\ loc.cmd.data = "write" /\ "TXDR" \in mask -> "fill"
                      [] OTHER -> "check")
            /\ UNCHANGED reg
    /\ UNCHANGED <<host, ctl, hist>>

\* RXDR and DTO are cleared, whichever of them was seen.
clear_rx ==
    /\ pc = "clear_rx"
    /\ Writel({"RXDR", "DTO"})
    /\ Goto("drain")
    /\ UNCHANGED <<loc, host, ctl, hist>>

Least(a, b) == IF a < b THEN a ELSE b

\* The loop of a read: dwmci_fifo_ready waits for a word, then all there are are taken.
\* Its last read of STATUS is a timeout, whatever it finds.
drain ==
    /\ pc = "drain"
    /\ LET len == Least(loc.size, Len(reg.fifo)) IN
       IF loc.size = 0 \/ LastPoll
       THEN Goto("check") /\ UNCHANGED <<loc, reg, hist>>
       ELSE IF len = 0
       THEN Again /\ UNCHANGED <<loc, reg, hist>>
       ELSE /\ hist' = [hist EXCEPT !.buf = @ \o SubSeq(reg.fifo, 1, len)]
            /\ reg' = [reg EXCEPT !.fifo = SubSeq(@, len + 1, Len(@))]
            /\ loc' = [loc EXCEPT !.size = @ - len]
            /\ Goto("drain")
    /\ UNCHANGED <<host, ctl>>

fifo_depth == (host.fifoth_val + 1) * 2

\* The words a write puts into the FIFO at once: an unsigned difference.
Room == IF fifo_depth < Len(reg.fifo) THEN loc.size ELSE Least(loc.size, fifo_depth - Len(reg.fifo))

\* The loop of a write, and TXDR cleared behind it.
fill ==
    /\ pc = "fill"
    /\ IF loc.size = 0 \/ LastPoll
       THEN Writel({"TXDR"}) /\ Goto("check") /\ UNCHANGED loc
       ELSE IF Len(reg.fifo) >= DEPTH
       THEN Again /\ UNCHANGED <<loc, reg>>
       ELSE /\ reg' = [reg EXCEPT !.fifo = @ \o [k \in 1 .. Room |-> "new"]]
            /\ loc' = [loc EXCEPT !.size = @ - Room]
            /\ Goto("fill")
    /\ UNCHANGED <<host, ctl, hist>>

\* The end of an iteration: DTO was seen at its head, or the time is up, or once more.
check ==
    /\ pc = "check"
    /\ IF "DTO" \in loc.mask
       THEN Finish(loc.mask, "0")
       ELSE \/ Finish(loc.mask, "ETIMEDOUT")
            \/ /\ loc.rounds < MaxPolls
               /\ loc' = [loc EXCEPT !.rounds = @ + 1]
               /\ Goto("mask")
               /\ UNCHANGED reg
    /\ UNCHANGED <<host, ctl, hist>>
-----------------------------------------------------------------------------
\* dwmci_execute_tuning tries the phases in turn; mmc_send_tuning (external) fails or not.
tune ==
    /\ pc = "idle" /\ host.ready
    /\ Goto("tune")
    /\ UNCHANGED <<loc, host, reg, ctl, hist>>

\* One phase: the first success raises the window, the first failure after it ends it.
tune_phase ==
    /\ pc = "tune"
    /\ Writel(Bits)
    /\ \E err \in BOOLEAN :
         LET raised == IF ~err /\ loc.smpl_raise < 0 THEN loc.i ELSE loc.smpl_raise
             falls == err /\ loc.smpl_raise >= 0 IN
         /\ loc' = [loc EXCEPT !.phase = loc.i, !.smpl_raise = raised, !.smpl_fall = IF falls THEN loc.i - 1 ELSE -1,
                               !.i = @ + 1, !.good = IF err THEN @ ELSE @ \cup {loc.i}]
         /\ Goto(IF falls \/ loc.i + 1 = PHASES THEN "tune_end" ELSE "tune")
    /\ UNCHANGED <<host, ctl, hist>>

\* The middle of the window, or phase 0 and -EINVAL when no phase was good.
tune_end ==
    /\ pc = "tune_end"
    /\ LET fall == IF loc.smpl_fall = -1 THEN PHASES - 1 ELSE loc.smpl_fall IN
       loc' = IF loc.smpl_raise < 0
              THEN [loc EXCEPT !.phase = 0, !.ret = "EINVAL"]
              ELSE [loc EXCEPT !.phase = (loc.smpl_raise + fall) \div 2, !.ret = "0"]
    /\ Writel(Bits)
    /\ Goto("return")
    /\ UNCHANGED <<host, ctl, hist>>
-----------------------------------------------------------------------------
\* The controller and the card (external).  They need a clock; a command waits for the
\* transfer before it unless it is CMD12, which ends that transfer.
Raised(bits) == [reg EXCEPT !.rintsts = @ \cup bits]

ctl_command ==
    LET c == ctl.tr.cmd IN
    /\ ctl.tr.active /\ ctl.clk # Off
    /\ c.stop \/ ctl.tr.xfer = "none"
    /\ \E fault \in {{}, {"RTO"}, {"RE"}, {"RCRC"}} :
         LET moves == c.data # "none" /\ fault \in {{}, {"RCRC"}} IN
         /\ reg' = Raised({"CDONE"} \cup fault \cup (IF moves /\ c.data = "write" THEN {"TXDR"} ELSE {}))
         /\ ctl' = [ctl EXCEPT !.started = TRUE,
                      !.tr = [Quiet EXCEPT !.xfer = IF moves THEN c.data ELSE "none",
                                           !.left = IF moves THEN c.words ELSE 0]]
    /\ UNCHANGED <<pc, polls, loc, host, hist>>

\* The card sends a word, as long as there is room; above the watermark RXDR is raised.
ctl_receive ==
    /\ ctl.tr.xfer = "read" /\ ctl.tr.left > 0 /\ ctl.clk # Off
    /\ Len(reg.fifo) < DEPTH
    /\ reg' = [Raised(IF Len(reg.fifo) >= reg.fifoth THEN {"RXDR"} ELSE {})
                 EXCEPT !.fifo = Append(@, "new")]
    /\ ctl' = [ctl EXCEPT !.tr.left = @ - 1]
    /\ UNCHANGED <<pc, polls, loc, host, hist>>

\* The card takes a word.
ctl_transmit ==
    /\ ctl.tr.xfer = "write" /\ ctl.tr.left > 0 /\ ctl.clk # Off
    /\ reg.fifo # <<>>
    /\ reg' = [Raised(IF Len(reg.fifo) - 1 <= reg.fifoth + 1 THEN {"TXDR"} ELSE {})
                 EXCEPT !.fifo = Tail(@)]
    /\ ctl' = [ctl EXCEPT !.tr.left = @ - 1]
    /\ hist' = [hist EXCEPT !.stored = IF Head(reg.fifo) = "new" THEN @ + 1 ELSE @]
    /\ UNCHANGED <<pc, polls, loc, host>>

\* The transfer is over, all of it or by an error or a timeout of the data.
ctl_data_over ==
    /\ ctl.tr.xfer # "none" /\ ctl.clk # Off
    /\ \/ ctl.tr.left = 0 /\ reg' = Raised({"DTO"}) /\ UNCHANGED hist
       \/ reg' = Raised({"DTO", "DATA_ERR"}) /\ hist' = [hist EXCEPT !.bad = TRUE]
    /\ ctl' = [ctl EXCEPT !.tr.xfer = "none", !.tr.left = 0]
    /\ UNCHANGED <<pc, polls, loc, host>>

\* UPD_CLK: the registers take effect.
ctl_update ==
    /\ ctl.upd /\ ctl.tr.xfer = "none"
    /\ ctl' = [ctl EXCEPT !.upd = FALSE, !.clk = IF reg.clkena THEN reg.clkdiv ELSE Off]
    /\ UNCHANGED <<pc, polls, loc, host, reg, hist>>
-----------------------------------------------------------------------------
Caller ==
    /\ calls < MaxCalls /\ calls' = calls + 1
    /\ \/ dwmci_init \/ tune
       \/ \E freq \in Freq : set_ios(freq)
       \/ \E c \in Command : dwmci_send_cmd(c)

Driver ==
    /\ \/ init_rest \/ setup_bus \/ setup_bus_enable \/ ios_rest \/ returned
       \/ wait_busy \/ issue \/ wait_cdone \/ read_mask \/ clear_rx \/ drain \/ fill \/ check
       \/ tune_phase \/ tune_end
    /\ UNCHANGED calls

Controller ==
    /\ ctl_command \/ ctl_receive \/ ctl_transmit \/ ctl_data_over \/ ctl_update
    /\ UNCHANGED calls

Next == Caller \/ Driver \/ Controller

\* The hart executes the driver.  Nothing is assumed of the controller and the card.
Spec == Init /\ [][Next]_vars /\ WF_vars(Driver)
-----------------------------------------------------------------------------
\* A data command that reports success has moved every word, its own words and no others,
\* and no data error was signalled, in whatever order the controller raises its bits and
\* the driver reads and clears them.  clean: the controller had nothing left to do of an
\* earlier command when RINTSTS was cleared, and the reset of the FIFO ended.  The FIFO
\* never overruns (TypeOK).
SuccessMeansComplete ==
    /\ TypeOK
    /\ pc = "return" /\ loc.ret = "0" /\ loc.cmd.data # "none" /\ hist.clean =>
         /\ ~hist.bad
         /\ loc.size = 0
         /\ loc.cmd.data = "read" => hist.buf = [k \in 1 .. loc.cmd.words |-> "new"]
         /\ loc.cmd.data = "write" => hist.stored = loc.cmd.words

\* While no clock update has timed out, the clock recorded in host->clock, which setup_bus
\* compares with to return early, is on and no faster than recorded.
ClockAsRecorded ==
    pc \in {"idle", "busy", "issue"} /\ host.clock # 0 /\ ~ctl.clk_lost =>
        /\ ctl.clk # Off
        /\ host.bus_hz <= host.clock * (IF ctl.clk = 0 THEN 1 ELSE 2 * ctl.clk)

\* The first command after a reset, and no other, is sent with the initialisation
\* sequence (SEND_INIT) that a card needs, also when calls fail in between.
FirstCommandInits ==
    ctl.tr.active /\ hist.clean => (ctl.tr.init <=> ~ctl.started)

\* Tuning that succeeds programs a phase in the middle of a window of good phases: as far
\* from the last bad phase below as from the first one above.
PhaseCentred ==
    pc = "return" /\ loc.i # 0 /\ loc.ret = "0" =>
        \E lo, hi \in 0 .. PHASES - 1 :
            /\ lo .. hi \subseteq loc.good /\ lo - 1 \notin loc.good /\ hi + 1 \notin loc.good
            /\ loc.phase \in lo .. hi
            /\ (hi - loc.phase) - (loc.phase - lo) \in {0, 1}

\* Every operation returns, whatever the controller and the card do or do not do.
EveryCallReturns == []<>(pc = "idle")
-----------------------------------------------------------------------------
\* The inductive invariant.

\* Where the driver is inside dwmci_send_cmd, and where it moves data.
Sending == {"busy", "issue", "cdone", "mask", "clear_rx", "drain", "fill", "check"}
Moving == {"mask", "clear_rx", "drain", "fill", "check"}

\* The locals of an operation are fresh; only a host that is ready sends commands.
LocalInv ==
    /\ pc = "idle" => loc = NoLocals
    /\ pc \in {"setup", "upd1", "upd2"} => loc.then # "idle"
    /\ pc \notin Sending \cup {"return"} => loc.cmd = NoCommand
    /\ pc \in Sending => host.ready

\* dwmci_init derives the depth of the FIFO from FIFOTH the first time and keeps it.
FifothInv ==
    IF host.fifoth_val = -1
    THEN reg.fifoth = DEPTH - 1 /\ ~host.ready
    ELSE host.fifoth_val = DEPTH \div 2 - 1 /\ reg.fifoth = host.fifoth_val

\* The flag is set until a command has been sent.
FlagInv ==
    /\ ctl.tr.active => ~host.need_init
    /\ ~ctl.tr.active => (host.need_init <=> ~ctl.started)
    /\ pc = "issue" /\ hist.clean => ~ctl.tr.active

\* The registers while the clock is being set, and the clock when it has been.
NoFaster(sclk, freq, div) == sclk <= freq * (IF div = 0 THEN 1 ELSE 2 * div)
ClockInv ==
    /\ pc \in {"upd1", "upd2"} => loc.freq # 0 /\ NoFaster(host.bus_hz, loc.freq, reg.clkdiv)
    /\ pc = "upd2" => reg.clkena /\ (ctl.upd \/ ctl.clk = reg.clkdiv)
    /\ pc \notin {"upd1", "upd2"} /\ host.clock # 0 /\ ~ctl.clk_lost =>
         ~ctl.upd /\ ctl.clk # Off /\ NoFaster(host.bus_hz, host.clock, ctl.clk)

\* The good phases so far are those since the first one.
TuneInv ==
    /\ pc \notin {"tune", "tune_end", "return"} => loc.i = 0 /\ loc.smpl_raise = -1 /\ loc.good = {}
    /\ pc = "tune" =>
         /\ loc.i < PHASES
         /\ loc.smpl_raise < loc.i
         /\ loc.good = IF loc.smpl_raise = -1 THEN {} ELSE loc.smpl_raise .. loc.i - 1
    /\ pc = "tune_end" /\ loc.smpl_raise # -1 =>
         LET fall == IF loc.smpl_fall = -1 THEN PHASES - 1 ELSE loc.smpl_fall IN
         loc.smpl_raise <= fall /\ loc.good = loc.smpl_raise .. fall

\* The words that the driver has not moved yet.
Todo == IF pc = "cdone" THEN loc.cmd.words ELSE loc.size

\* A command with data that was begun cleanly, until the controller has executed it,
Waiting ==
    /\ pc = "cdone"
    /\ ctl.tr.active /\ ctl.tr.cmd = Sent(loc.cmd) /\ ctl.tr.xfer = "none"
    /\ reg.rintsts = {} /\ reg.fifo = <<>>
    /\ hist.buf = <<>> /\ hist.stored = 0 /\ ~hist.bad

\* if it has failed,
Failed == pc = "cdone" /\ ~ctl.tr.active /\ reg.rintsts \cap {"RTO", "RE", "RCRC"} # {}

\* and while its data move: every word is in one place, the buffer, the FIFO or the card.
Accounted ==
    /\ ~ctl.tr.active
    /\ ctl.tr.xfer \in {"none", loc.cmd.data}
    /\ reg.fifo \in Seq({"new"}) /\ hist.buf \in Seq({"new"})
    /\ hist.bad => "DATA_ERR" \in reg.rintsts /\ ctl.tr.xfer = "none"
    /\ "DTO" \in reg.rintsts => ctl.tr.xfer = "none"
    /\ ~hist.bad =>
         /\ ctl.tr.xfer = "none" => ctl.tr.left = 0
         /\ loc.cmd.data = "read" =>
              /\ Len(hist.buf) + Todo = loc.cmd.words
              /\ Len(reg.fifo) + ctl.tr.left = Todo
         /\ loc.cmd.data = "write" =>
              /\ hist.stored + ctl.tr.left = loc.cmd.words
              /\ Len(reg.fifo) + Todo = ctl.tr.left

\* An iteration that has seen DTO is the last one.
LastRound ==
    pc \in Moving \ {"mask"} /\ "DTO" \in loc.mask =>
        /\ ctl.tr.xfer = "none" /\ ~hist.bad
        /\ pc = "drain" => polls = 0
        /\ pc = "check" => loc.size = 0

DataInv ==
    /\ pc = "issue" /\ hist.clean => ctl.tr.xfer = "none" /\ reg.rintsts = {}
    /\ pc \in Moving => loc.cmd.data # "none"
    /\ pc \in {"clear_rx", "drain"} => loc.cmd.data = "read"
    /\ pc = "fill" => loc.cmd.data = "write"
    /\ pc \in Moving \cup {"cdone"} /\ loc.cmd.data # "none" /\ hist.clean =>
         Waiting \/ Failed \/ (Accounted /\ LastRound)
    /\ pc = "return" /\ loc.ret = "0" /\ loc.cmd.data # "none" /\ hist.clean =>
         ~ctl.tr.active /\ ctl.tr.xfer = "none"

IInv ==
    /\ SuccessMeansComplete /\ FirstCommandInits /\ PhaseCentred
    /\ LocalInv /\ FifothInv /\ FlagInv /\ ClockInv /\ TuneInv /\ DataInv
====
