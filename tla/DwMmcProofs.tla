---- MODULE DwMmcProofs ----
\* Proofs about the SD card driver of os/drivers/dw_mmc.c, for every depth of the FIFO,
\* every clock, any lengths of transfers, any number of phases, retries and calls.
EXTENDS DwMmc, TLAPS

-----------------------------------------------------------------------------
\* The types.

\* What a command is.
LEMMA Commands ==
    ASSUME NEW c \in Command
    PROVE  /\ c \in [data : {"none", "read", "write"}, words : Nat, crc : BOOLEAN,
                     r136busy : BOOLEAN, stop : BOOLEAN]
           /\ c.data # "none" => c.crc /\ c.words # 0
<1>1. CASE c.data = "none"
  <2>1. /\ c \in [data : {"none"}, words : {0}, crc : BOOLEAN, r136busy : BOOLEAN, stop : BOOLEAN]
    BY <1>1 DEF Command
  <2>. QED BY <2>1
<1>2. CASE c.data # "none"
  <2>1. c \in [data : {"read", "write"}, words : Sizes, crc : {TRUE}, r136busy : {FALSE}, stop : {FALSE}]
    BY <1>2 DEF Command
  <2>. QED BY <2>1, BoundAssumption
<1>. QED BY <1>1, <1>2

\* The empty records are of their types.
LEMMA Empty ==
    NoCommand \in Command /\ NoLocals \in Locals /\ NoHistory \in History /\ Quiet \in Transfer
<1>1. NoCommand \in Command
  BY DEF NoCommand, Command
<1>2. NoLocals \in Locals
  BY <1>1, BoundAssumption DEF NoLocals, Locals, Results
<1>3. NoHistory \in History
  BY DEF NoHistory, History, Words
<1>4. Quiet \in Transfer
  BY DEF Quiet, Transfer, NoCommand
<1>. QED BY <1>1, <1>2, <1>3, <1>4

\* Updates of the local variables.
LEMMA LocalUpdates ==
    ASSUME loc \in Locals
    PROVE  /\ \A r \in Results : [loc EXCEPT !.ret = r] \in Locals
           /\ \A c \in Command : [loc EXCEPT !.cmd = c] \in Locals
           /\ \A n \in Nat : [loc EXCEPT !.size = n] \in Locals
           /\ \A n \in 0 .. MaxPolls : [loc EXCEPT !.rounds = n] \in Locals
           /\ \A m \in SUBSET Bits : [loc EXCEPT !.mask = m] \in Locals
           /\ \A f \in Freq, l \in {"init_rest", "ios_rest"} :
                [loc EXCEPT !.freq = f, !.then = l] \in Locals
BY DEF Locals

\* Updates of the registers.
LEMMA RegisterUpdates ==
    ASSUME reg \in Registers
    PROVE  /\ \A b : [reg EXCEPT !.rintsts = @ \ b] \in Registers
           /\ \A b \in SUBSET Bits : Raised(b) \in Registers
           /\ \A f \in Words : [reg EXCEPT !.fifo = f] \in Registers
           /\ \A b \in BOOLEAN : [reg EXCEPT !.clkena = b] \in Registers
           /\ \A n \in Nat : [reg EXCEPT !.clkena = FALSE, !.clkdiv = n] \in Registers
           /\ \A v \in -1 .. DEPTH - 1 :
                [reg EXCEPT !.rintsts = {}, !.fifoth = v, !.clkena = FALSE] \in Registers
BY DEF Registers, Raised

\* Updates of the command and the transfer in progress.
LEMMA TransferUpdates ==
    ASSUME NEW t \in Transfer
    PROVE  /\ \A n \in Nat : [t EXCEPT !.left = n] \in Transfer
           /\ [t EXCEPT !.xfer = "none", !.left = 0] \in Transfer
           /\ \A b \in BOOLEAN, c \in Command :
                [t EXCEPT !.active = TRUE, !.init = b, !.cmd = Sent(c)] \in Transfer
<1>1. ASSUME NEW c \in Command
      PROVE  Sent(c) \in [data : {"none", "read", "write"}, words : Nat, crc : {FALSE},
                          r136busy : BOOLEAN, stop : BOOLEAN]
  BY Commands DEF Sent
<1>. QED BY <1>1 DEF Transfer

\* Updates of the controller.
LEMMA DeviceUpdates ==
    ASSUME ctl \in Device
    PROVE  /\ [ctl EXCEPT !.tr = Quiet, !.upd = FALSE, !.started = FALSE] \in Device
           /\ \A b \in BOOLEAN : [ctl EXCEPT !.upd = b] \in Device
           /\ \A b \in BOOLEAN : [ctl EXCEPT !.clk_lost = b] \in Device
           /\ \A b \in BOOLEAN, n \in Nat \cup {Off} : [ctl EXCEPT !.upd = b, !.clk = n] \in Device
           /\ \A t \in Transfer : [ctl EXCEPT !.tr = t] \in Device /\ [ctl EXCEPT !.started = TRUE, !.tr = t] \in Device
BY Empty DEF Device

\* Words that are moved stay words.
LEMMA WordsMoved ==
    ASSUME NEW s \in Words
    PROVE  /\ Old(s) \in Words /\ Len(Old(s)) = Len(s)
           /\ \A n \in 0 .. Len(s) :
                /\ SubSeq(s, 1, n) \in Words /\ Len(SubSeq(s, 1, n)) = n
                /\ SubSeq(s, n + 1, Len(s)) \in Words /\ Len(SubSeq(s, n + 1, Len(s))) = Len(s) - n
           /\ \A t \in Words : s \o t \in Words /\ Len(s \o t) = Len(s) + Len(t)
           /\ Append(s, "new") \in Words /\ Len(Append(s, "new")) = Len(s) + 1
           /\ s # <<>> => Tail(s) \in Words /\ Len(Tail(s)) = Len(s) - 1
<1>1. Old(s) \in Words /\ Len(Old(s)) = Len(s)
  BY DEF Old, Words
<1>2. ASSUME NEW n \in 0 .. Len(s)
      PROVE  /\ SubSeq(s, 1, n) \in Words /\ Len(SubSeq(s, 1, n)) = n
             /\ SubSeq(s, n + 1, Len(s)) \in Words /\ Len(SubSeq(s, n + 1, Len(s))) = Len(s) - n
  BY DEF Words
<1>3. /\ \A t \in Words : s \o t \in Words /\ Len(s \o t) = Len(s) + Len(t)
      /\ Append(s, "new") \in Words /\ Len(Append(s, "new")) = Len(s) + 1
      /\ s # <<>> => Tail(s) \in Words /\ Len(Tail(s)) = Len(s) - 1
  BY DEF Words
<1>. QED BY <1>1, <1>2, <1>3

\* What the driver puts into the FIFO is there, and fits.
LEMMA RoomFits ==
    ASSUME TypeOK, FifothInv, host.ready, Len(reg.fifo) < DEPTH, loc.size # 0
    PROVE  /\ Room \in 1 .. loc.size /\ Len(reg.fifo) + Room <= DEPTH
           /\ [k \in 1 .. Room |-> "new"] \in Words /\ [k \in 1 .. Room |-> "new"] \in Seq({"new"})
           /\ Len([k \in 1 .. Room |-> "new"]) = Room
<1>1. loc.size \in Nat /\ Len(reg.fifo) \in Nat
  BY DEF TypeOK, Locals, Registers, Words
<1>2. fifo_depth = DEPTH
  <2>1. host.fifoth_val = DEPTH \div 2 - 1
    BY DEF FifothInv
  <2>2. (DEPTH \div 2) * 2 = DEPTH
    BY DepthAssumption
  <2>. QED BY <2>1, <2>2, DepthAssumption DEF fifo_depth
<1>3. Room \in 1 .. loc.size /\ Len(reg.fifo) + Room <= DEPTH
  BY <1>1, <1>2, DepthAssumption DEF Room, Least
<1>. QED BY <1>3 DEF Words

\* The types of the variables, of which TypeOK says more.
Types ==
    /\ pc \in PC /\ polls \in 0 .. MaxPolls
    /\ loc \in Locals /\ host \in Host /\ reg \in Registers /\ ctl \in Device /\ hist \in History

\* One operation after the other.
LEMMA CallerTypes ==
    ASSUME TypeOK, LocalInv, FifothInv, Caller
    PROVE  TypeOK'
<1>0. /\ Types /\ pc = "idle" /\ loc.size = 0 /\ loc.size <= loc.cmd.words
      /\ Len(reg.fifo) <= DEPTH /\ calls \in 0 .. MaxCalls /\ MaxPolls \in Nat \ {0} /\ MaxCalls \in Nat
  <2>1. pc = "idle"
    BY DEF Caller, dwmci_init, tune, set_ios, dwmci_send_cmd
  <2>2. loc.size = 0
    BY <2>1 DEF LocalInv, NoLocals
  <2>. QED BY <2>1, <2>2, BoundAssumption DEF TypeOK, Types
<1>1. calls' \in 0 .. MaxCalls
  BY <1>0 DEF Caller
<1>2. CASE dwmci_init
  <2>1. hist' = hist /\ polls' = 0 /\ loc'.size = loc.size /\ loc'.cmd = loc.cmd
    BY <1>0, <1>2 DEF dwmci_init, Return, Goto, Types, Locals
  <2>2. pc' \in PC /\ loc' \in Locals
    <3>1. loc \in Locals /\ FMin \in Freq /\ "EIO" \in Results
      BY <1>0, ClockAssumption DEF Types, Results
    <3>2. /\ [loc EXCEPT !.freq = FMin, !.then = "init_rest"] \in Locals
          /\ [loc EXCEPT !.ret = "EIO"] \in Locals
      BY <3>1, LocalUpdates
    <3>. QED BY <1>2, <3>2 DEF dwmci_init, Return, Goto, PC
  <2>3. host' \in Host
    BY <1>0, <1>2 DEF dwmci_init, Types, Host
  <2>4. reg' \in Registers /\ Len(reg'.fifo) <= DEPTH
    <3>1. reg \in Registers /\ <<>> \in Words /\ Len(<<>>) <= DEPTH
      BY <1>0, DepthAssumption DEF Types, Words
    <3>2. [reg EXCEPT !.fifo = <<>>] \in Registers /\ [reg EXCEPT !.fifo = <<>>].fifo = <<>>
      BY <3>1 DEF Registers
    <3>. QED BY <1>0, <1>2, <3>1, <3>2 DEF dwmci_init
  <2>5. ctl' \in Device
    BY <1>0, <1>2, DeviceUpdates DEF dwmci_init, Types
  <2>. QED BY <1>0, <1>1, <2>1, <2>2, <2>3, <2>4, <2>5 DEF TypeOK, Types
<1>3. CASE tune
  BY <1>0, <1>1, <1>3 DEF TypeOK, Types, tune, Goto, PC
<1>4. ASSUME NEW freq \in Freq, set_ios(freq) PROVE TypeOK'
  <2>1. loc' \in Locals /\ loc'.size = loc.size /\ loc'.cmd = loc.cmd
    <3>1. loc \in Locals /\ loc' = [loc EXCEPT !.freq = freq, !.then = "ios_rest"]
      BY <1>0, <1>4 DEF set_ios, Types
    <3>2. loc' \in Locals
      BY <3>1, LocalUpdates
    <3>. QED BY <3>1, <3>2 DEF Locals
  <2>. QED BY <1>0, <1>1, <1>4, <2>1 DEF TypeOK, Types, set_ios, Goto, PC
<1>5. ASSUME NEW c \in Command, dwmci_send_cmd(c) PROVE TypeOK'
  <2>1. loc' \in Locals /\ loc'.size = 0 /\ loc'.cmd = c
    <3>1. loc \in Locals /\ loc' = [loc EXCEPT !.cmd = c]
      BY <1>0, <1>5 DEF dwmci_send_cmd, Types
    <3>2. loc' \in Locals
      BY <3>1, LocalUpdates
    <3>. QED BY <1>0, <3>1, <3>2 DEF Locals
  <2>2. c.words \in Nat
    BY Commands
  <2>. QED BY <1>0, <1>1, <1>5, <2>1, <2>2 DEF TypeOK, Types, dwmci_send_cmd, Goto, PC
<1>. QED BY <1>2, <1>3, <1>4, <1>5 DEF Caller

\* The controller keeps its types whatever it does.
LEMMA ControllerTypes ==
    ASSUME TypeOK, Controller
    PROVE  TypeOK'
<1>0. /\ Types /\ loc.size <= loc.cmd.words /\ Len(reg.fifo) <= DEPTH /\ calls \in 0 .. MaxCalls
      /\ reg.fifo \in Words /\ Len(reg.fifo) \in Nat /\ ctl.tr \in Transfer /\ ctl.tr.left \in Nat
      /\ hist.stored \in Nat
  <2>1. Types /\ loc.size <= loc.cmd.words /\ Len(reg.fifo) <= DEPTH /\ calls \in 0 .. MaxCalls
    BY DEF TypeOK, Types
  <2>2. reg.fifo \in Words /\ Len(reg.fifo) \in Nat
    BY <2>1 DEF Types, Registers, Words
  <2>3. ctl.tr \in Transfer /\ ctl.tr.left \in Nat
    BY <2>1 DEF Types, Device, Transfer
  <2>4. hist.stored \in Nat
    BY <2>1 DEF Types, History
  <2>. QED BY <2>1, <2>2, <2>3, <2>4
<1>1. UNCHANGED <<pc, polls, calls, loc, host>>
  BY DEF Controller, ctl_command, ctl_receive, ctl_transmit, ctl_data_over, ctl_update
<1>2. CASE ctl_command
  <2>1. PICK b \in SUBSET Bits : reg' = Raised(b)
    BY <1>2 DEF ctl_command, Bits
  <2>2. reg' \in Registers /\ reg'.fifo = reg.fifo
    BY <1>0, <2>1, RegisterUpdates DEF Types, Raised, Registers
  <2>3. ctl' \in Device
    <3>1. ctl.tr.cmd.words \in Nat /\ ctl.tr.cmd.data \in {"none", "read", "write"}
      BY <1>0 DEF Transfer
    <3>2. PICK x \in {"none", "read", "write"}, n \in Nat :
            ctl' = [ctl EXCEPT !.started = TRUE, !.tr = [Quiet EXCEPT !.xfer = x, !.left = n]]
      BY <1>2, <3>1 DEF ctl_command
    <3>3. [Quiet EXCEPT !.xfer = x, !.left = n] \in Transfer
      BY Empty DEF Transfer
    <3>. QED BY <1>0, <3>2, <3>3, DeviceUpdates DEF Types
  <2>4. hist' = hist
    BY <1>2 DEF ctl_command
  <2>. QED BY <1>0, <1>1, <2>2, <2>3, <2>4 DEF TypeOK, Types, Controller
<1>3. CASE ctl_receive
  <2>1. PICK b \in SUBSET Bits : reg' = [Raised(b) EXCEPT !.fifo = Append(reg.fifo, "new")]
    BY <1>0, <1>3 DEF ctl_receive, Bits, Raised, Types, Registers
  <2>2. reg' \in Registers /\ reg'.fifo = Append(reg.fifo, "new")
    BY <1>0, <2>1, WordsMoved DEF Types, Raised, Registers
  <2>3. ctl' \in Device
    <3>1. ctl' = [ctl EXCEPT !.tr = [ctl.tr EXCEPT !.left = ctl.tr.left - 1]] /\ ctl.tr.left > 0
      BY <1>0, <1>3 DEF ctl_receive, Types, Device
    <3>2. PICK n \in Nat : n = ctl.tr.left - 1
      BY <1>0, <3>1
    <3>3. [ctl.tr EXCEPT !.left = n] \in Transfer
      BY <1>0, TransferUpdates
    <3>. QED BY <1>0, <3>1, <3>2, <3>3, DeviceUpdates DEF Types
  <2>4. hist' = hist /\ Len(reg'.fifo) <= DEPTH
    BY <1>0, <1>3, <2>2, WordsMoved, DepthAssumption DEF ctl_receive
  <2>. QED BY <1>0, <1>1, <2>2, <2>3, <2>4 DEF TypeOK, Types, Controller
<1>4. CASE ctl_transmit
  <2>1. PICK b \in SUBSET Bits : reg' = [Raised(b) EXCEPT !.fifo = Tail(reg.fifo)]
    BY <1>0, <1>4 DEF ctl_transmit, Bits, Raised, Types, Registers
  <2>2. reg' \in Registers /\ reg'.fifo = Tail(reg.fifo) /\ reg.fifo # <<>>
    <3>1. reg.fifo # <<>> /\ Tail(reg.fifo) \in Words
      BY <1>0, <1>4, WordsMoved DEF ctl_transmit
    <3>. QED BY <1>0, <2>1, <3>1 DEF Types, Raised, Registers
  <2>3. ctl' \in Device
    <3>1. ctl' = [ctl EXCEPT !.tr = [ctl.tr EXCEPT !.left = ctl.tr.left - 1]] /\ ctl.tr.left > 0
      BY <1>0, <1>4 DEF ctl_transmit, Types, Device
    <3>2. PICK n \in Nat : n = ctl.tr.left - 1
      BY <1>0, <3>1
    <3>3. [ctl.tr EXCEPT !.left = n] \in Transfer
      BY <1>0, TransferUpdates
    <3>. QED BY <1>0, <3>1, <3>2, <3>3, DeviceUpdates DEF Types
  <2>4. hist' \in History
    BY <1>0, <1>4 DEF ctl_transmit, Types, History
  <2>5. Len(reg'.fifo) <= DEPTH
    BY <1>0, <2>2, WordsMoved, DepthAssumption
  <2>. QED BY <1>0, <1>1, <2>2, <2>3, <2>4, <2>5 DEF TypeOK, Types, Controller
<1>5. CASE ctl_data_over
  <2>1. PICK b \in SUBSET Bits : reg' = Raised(b)
    BY <1>5 DEF ctl_data_over, Bits
  <2>2. reg' \in Registers /\ reg'.fifo = reg.fifo
    BY <1>0, <2>1, RegisterUpdates DEF Types, Raised, Registers
  <2>3. ctl' \in Device /\ hist' \in History
    BY <1>0, <1>5 DEF ctl_data_over, Types, Device, Transfer, History
  <2>. QED BY <1>0, <1>1, <2>2, <2>3 DEF TypeOK, Types, Controller
<1>6. CASE ctl_update
  <2>1. ctl' \in Device
    BY <1>0, <1>6, DeviceUpdates DEF ctl_update, Types, Registers
  <2>2. reg' = reg /\ hist' = hist
    BY <1>6 DEF ctl_update
  <2>. QED BY <1>0, <1>1, <2>1, <2>2 DEF TypeOK, Types, Controller
<1>. QED BY <1>2, <1>3, <1>4, <1>5, <1>6 DEF Controller

\* What TypeOK asks for, of a step of the driver.
LEMMA DriverTypeOK ==
    ASSUME TypeOK, Driver, Types', loc'.size <= loc'.cmd.words, Len(reg'.fifo) <= DEPTH
    PROVE  TypeOK'
BY DEF TypeOK, Types, Driver

\* A step that returns.
LEMMA ReturnTypes ==
    ASSUME Types, NEW r \in Results, Return(r)
    PROVE  /\ pc' = "return" /\ pc' \in PC /\ polls' = 0 /\ polls' \in 0 .. MaxPolls
           /\ loc' \in Locals /\ loc'.ret = r
           /\ loc'.cmd = loc.cmd /\ loc'.size = loc.size /\ loc'.i = loc.i
<1>1. loc' \in Locals
  BY LocalUpdates DEF Return, Types
<1>2. pc' = "return" /\ pc' \in PC /\ polls' = 0 /\ polls' \in 0 .. MaxPolls
  BY BoundAssumption DEF Return, Goto, PC
<1>3. loc' = [loc EXCEPT !.ret = r] /\ loc \in Locals
  BY DEF Return, Types
<1>. QED BY <1>1, <1>2, <1>3 DEF Locals

\* Ones written to RINTSTS.
LEMMA WritelTypes ==
    ASSUME reg \in Registers, NEW b, Writel(b)
    PROVE  /\ reg' \in Registers /\ reg'.rintsts = reg.rintsts \ b
           /\ reg'.fifo = reg.fifo /\ reg'.fifoth = reg.fifoth
           /\ reg'.clkena = reg.clkena /\ reg'.clkdiv = reg.clkdiv
BY DEF Registers, Writel

\* A step that goes on.
LEMMA GotoTypes ==
    ASSUME TypeOK
    PROVE  /\ \A l \in PC : Goto(l) => pc' \in PC /\ polls' \in 0 .. MaxPolls
           /\ Again /\ ~LastPoll => pc' \in PC /\ polls' \in 0 .. MaxPolls
<1>1. \A l \in PC : Goto(l) => pc' \in PC /\ polls' \in 0 .. MaxPolls
  BY BoundAssumption DEF Goto
<1>2. Again /\ ~LastPoll => pc' \in PC /\ polls' \in 0 .. MaxPolls
  BY BoundAssumption DEF TypeOK, Again, LastPoll
<1>. QED BY <1>1, <1>2

\* Frequencies are numbers.
LEMMA Frequencies == \A f \in Freq \cup {0} : f \in Nat
<1>1. Freq \subseteq Nat
  BY ClockAssumption
<1>. QED BY ONLY <1>1

\* Division rounds down.
LEMMA Quotient ==
    ASSUME NEW a \in Nat, NEW b \in Nat \ {0}
    PROVE  a \div b \in Nat /\ b * (a \div b) <= a /\ a < b * (a \div b) + b
<1>1. a \div b \in Nat
  OBVIOUS
<1>2. b * (a \div b) <= a
  OBVIOUS
<1>3. a < b * (a \div b) + b
  OBVIOUS
<1>. QED BY <1>1, <1>2, <1>3

\* DIV_ROUND_UP: the clock is no faster than what was asked for.
LEMMA DividerBound ==
    ASSUME NEW sclk \in Nat, NEW freq \in Nat \ {0}
    PROVE  Divider(sclk, freq) \in Nat /\ NoFaster(sclk, freq, Divider(sclk, freq))
<1>1. CASE sclk = freq
  BY <1>1 DEF Divider, NoFaster
<1>2. CASE sclk # freq
  <2>1. PICK a \in Nat, b \in Nat \ {0} : a = sclk + 2 * freq - 1 /\ b = 2 * freq
    OBVIOUS
  <2>2. PICK d \in Nat : d = a \div b
    BY Quotient
  <2>3. b * d <= a /\ a < b * d + b
    BY <2>2, Quotient
  <2>4. Divider(sclk, freq) = d
    BY <1>2, <2>1, <2>2 DEF Divider
  <2>5. sclk <= b * d
    BY <2>1, <2>3
  <2>6. b * d = freq * (2 * d)
    BY <2>1, <2>3
  <2>7. CASE d = 0
    BY <2>3, <2>4, <2>5, <2>7 DEF NoFaster
  <2>. QED BY <2>3, <2>4, <2>5, <2>6, <2>7 DEF NoFaster
<1>. QED BY <1>1, <1>2

\* dwmci_init, set_ios and the clock.
LEMMA SetupTypes ==
    ASSUME TypeOK, FifothInv, Driver,
           init_rest \/ setup_bus \/ setup_bus_enable \/ ios_rest \/ returned
    PROVE  TypeOK'
<1>0. /\ Types /\ loc.size <= loc.cmd.words /\ Len(reg.fifo) <= DEPTH /\ "0" \in Results
      /\ loc.freq \in Nat /\ host.bus_hz \in Nat /\ loc.then \in PC
  <2>1. Types /\ loc.size <= loc.cmd.words /\ Len(reg.fifo) <= DEPTH /\ "0" \in Results
    BY DEF TypeOK, Types, Results
  <2>2. loc.freq \in Nat /\ loc.then \in PC
    <3>1. loc.freq \in Freq \cup {0} /\ loc.then \in {"idle", "init_rest", "ios_rest"}
      BY <2>1 DEF Types, Locals
    <3>2. loc.freq \in Nat
      BY <3>1, Frequencies
    <3>3. loc.then \in PC
      BY <3>1 DEF PC
    <3>. QED BY <3>2, <3>3
  <2>3. host.bus_hz \in Nat
    BY <2>1, ClockAssumption DEF Types, Host
  <2>. QED BY <2>1, <2>2, <2>3
<1>1. CASE init_rest
  <2>1. PICK v \in -1 .. DEPTH - 1 :
          /\ host' = [host EXCEPT !.fifoth_val = v, !.ready = TRUE]
          /\ reg' = [reg EXCEPT !.rintsts = {}, !.fifoth = v, !.clkena = FALSE]
    <3>1. DEPTH \div 2 - 1 \in -1 .. DEPTH - 1
      BY DepthAssumption
    <3>2. (IF host.fifoth_val = -1 THEN (reg.fifoth + 1) \div 2 - 1 ELSE host.fifoth_val) = DEPTH \div 2 - 1
      BY DepthAssumption DEF FifothInv
    <3>. QED BY <1>1, <3>1, <3>2 DEF init_rest
  <2>2. host' \in Host /\ reg' \in Registers /\ reg'.fifo = reg.fifo
    BY <1>0, <2>1 DEF Types, Host, Registers
  <2>3. Return("0") /\ ctl' = ctl /\ hist' = hist
    BY <1>1 DEF init_rest
  <2>. QED BY <1>0, <2>2, <2>3, ReturnTypes, DriverTypeOK DEF Types
<1>2. CASE setup_bus
  <2>1. pc' \in PC /\ polls' \in 0 .. MaxPolls
    BY <1>0, <1>2, GotoTypes DEF setup_bus, PC
  <2>2. loc' = loc /\ host' = host /\ hist' = hist
    BY <1>2 DEF setup_bus
  <2>3. reg' \in Registers /\ reg'.fifo = reg.fifo
    <3>1. ASSUME loc.freq # 0 PROVE Divider(host.bus_hz, loc.freq) \in Nat
      BY <1>0, <3>1, DividerBound
    <3>2. reg' = reg \/ \E n \in Nat : reg' = [reg EXCEPT !.clkena = FALSE, !.clkdiv = n]
      BY <1>2, <3>1 DEF setup_bus
    <3>. QED BY <1>0, <3>2 DEF Types, Registers
  <2>4. ctl' \in Device
    BY <1>0, <1>2, DeviceUpdates DEF setup_bus, Types
  <2>. QED BY <1>0, <2>1, <2>2, <2>3, <2>4, DriverTypeOK DEF Types
<1>3. CASE setup_bus_enable
  <2>1. pc' \in PC /\ polls' \in 0 .. MaxPolls
    BY <1>0, <1>3, GotoTypes DEF setup_bus_enable, PC
  <2>2. loc' = loc /\ hist' = hist
    BY <1>3 DEF setup_bus_enable
  <2>3. reg' \in Registers /\ reg'.fifo = reg.fifo
    <3>1. reg' = reg \/ reg' = [reg EXCEPT !.clkena = TRUE]
      BY <1>3 DEF setup_bus_enable
    <3>. QED BY <1>0, <3>1 DEF Types, Registers
  <2>4. ctl' \in Device
    BY <1>0, <1>3, DeviceUpdates DEF setup_bus_enable, Types
  <2>5. host' \in Host
    <3>1. host' = host \/ host' = [host EXCEPT !.clock = loc.freq]
      BY <1>3 DEF setup_bus_enable
    <3>2. loc.freq \in Freq \cup {0}
      BY <1>0 DEF Types, Locals
    <3>. QED BY <1>0, <3>1, <3>2 DEF Types, Host
  <2>. QED BY <1>0, <2>1, <2>2, <2>3, <2>4, <2>5, DriverTypeOK DEF Types
<1>4. CASE ios_rest
  <2>1. Return("0") /\ UNCHANGED <<host, reg, ctl, hist>>
    BY <1>4 DEF ios_rest
  <2>. QED BY <1>0, <2>1, ReturnTypes, DriverTypeOK DEF Types
<1>5. CASE returned
  <2>1. loc' = NoLocals /\ hist' = NoHistory /\ UNCHANGED <<host, ctl>> /\ pc' \in PC /\ polls' \in 0 .. MaxPolls
    BY <1>5, GotoTypes DEF returned, PC
  <2>2. loc'.size <= loc'.cmd.words
    BY <2>1 DEF NoLocals, NoCommand
  <2>3. reg.fifo \in Words /\ reg' = [reg EXCEPT !.fifo = Old(reg.fifo)]
    BY <1>0, <1>5 DEF returned, Types, Registers
  <2>4. reg' \in Registers /\ reg'.fifo = Old(reg.fifo)
    BY <1>0, <2>3, WordsMoved DEF Types, Registers
  <2>. QED BY <1>0, <2>1, <2>2, <2>3, <2>4, Empty, WordsMoved, DriverTypeOK DEF Types
<1>. QED BY <1>1, <1>2, <1>3, <1>4, <1>5

\* Tuning.
LEMMA TuneTypes ==
    ASSUME TypeOK, TuneInv, Driver, tune_phase \/ tune_end
    PROVE  TypeOK'
<1>0. /\ Types /\ loc.size <= loc.cmd.words /\ Len(reg.fifo) <= DEPTH
      /\ PHASES \in Nat \ {0}
  BY BoundAssumption DEF TypeOK, Types
<1>1. /\ loc.i \in 0 .. PHASES /\ loc.smpl_raise \in -1 .. PHASES - 1 /\ loc.smpl_fall \in -1 .. PHASES - 1
      /\ loc.good \in SUBSET (0 .. PHASES - 1)
  BY <1>0 DEF Types, Locals
<1>2. Writel(Bits) /\ UNCHANGED <<host, ctl, hist>>
  BY DEF tune_phase, tune_end
<1>3. pc' \in PC /\ polls' \in 0 .. MaxPolls
  BY GotoTypes DEF tune_phase, tune_end, PC
<1>4. CASE tune_phase
  <2>1. loc.i \in 0 .. PHASES - 1
    <3>1. loc.i < PHASES
      BY <1>4 DEF tune_phase, TuneInv
    <3>. QED BY <1>0, <1>1, <3>1
  <2>2. PICK ra \in -1 .. PHASES - 1, fa \in -1 .. PHASES - 1, go \in SUBSET (0 .. PHASES - 1) :
          loc' = [loc EXCEPT !.phase = loc.i, !.smpl_raise = ra, !.smpl_fall = fa,
                             !.i = loc.i + 1, !.good = go]
    <3>1. PICK err \in BOOLEAN :
            loc' = [loc EXCEPT !.phase = loc.i,
                      !.smpl_raise = IF ~err /\ loc.smpl_raise < 0 THEN loc.i ELSE loc.smpl_raise,
                      !.smpl_fall = IF err /\ loc.smpl_raise >= 0 THEN loc.i - 1 ELSE -1,
                      !.i = loc.i + 1, !.good = IF err THEN loc.good ELSE loc.good \cup {loc.i}]
      BY <1>0, <1>4 DEF tune_phase, Types, Locals
    <3>2. /\ (IF ~err /\ loc.smpl_raise < 0 THEN loc.i ELSE loc.smpl_raise) \in -1 .. PHASES - 1
          /\ (IF err /\ loc.smpl_raise >= 0 THEN loc.i - 1 ELSE -1) \in -1 .. PHASES - 1
      BY <1>0, <1>1, <2>1
    <3>3. (IF err THEN loc.good ELSE loc.good \cup {loc.i}) \in SUBSET (0 .. PHASES - 1)
      BY <1>1, <2>1
    <3>. QED BY <3>1, <3>2, <3>3
  <2>3. loc.i + 1 \in 0 .. PHASES
    BY <1>0, <2>1
  <2>4. loc' \in Locals /\ loc'.size = loc.size /\ loc'.cmd = loc.cmd
    BY <1>0, <2>1, <2>2, <2>3 DEF Types, Locals
  <2>. QED BY <1>0, <1>2, <1>3, <2>4, WritelTypes, DriverTypeOK DEF Types
<1>5. CASE tune_end
  <2>1. PICK ph \in 0 .. PHASES - 1, r \in Results : loc' = [loc EXCEPT !.phase = ph, !.ret = r]
    <3>1. CASE loc.smpl_raise < 0
      <4>1. 0 \in 0 .. PHASES - 1 /\ "EINVAL" \in Results
        BY <1>0 DEF Results
      <4>. QED BY <1>5, <3>1, <4>1 DEF tune_end
    <3>2. CASE ~(loc.smpl_raise < 0)
      <4>1. PICK fall \in 0 .. PHASES - 1 : fall = IF loc.smpl_fall = -1 THEN PHASES - 1 ELSE loc.smpl_fall
        BY <1>0, <1>1
      <4>2. (loc.smpl_raise + fall) \div 2 \in 0 .. PHASES - 1 /\ "0" \in Results
        BY <1>0, <1>1, <3>2 DEF Results
      <4>. QED BY <1>5, <3>2, <4>1, <4>2 DEF tune_end
    <3>. QED BY <3>1, <3>2
  <2>2. loc' \in Locals /\ loc'.size = loc.size /\ loc'.cmd = loc.cmd
    BY <1>0, <2>1 DEF Types, Locals
  <2>. QED BY <1>0, <1>2, <1>3, <2>2, WritelTypes, DriverTypeOK DEF Types
<1>. QED BY <1>4, <1>5

\* dwmci_send_cmd, until the command is done.
LEMMA SendTypes ==
    ASSUME TypeOK, Driver, wait_busy \/ issue \/ wait_cdone
    PROVE  TypeOK'
<1>0. /\ Types /\ loc.size <= loc.cmd.words /\ Len(reg.fifo) <= DEPTH
      /\ {"0", "-1", "EIO", "ETIMEDOUT"} \subseteq Results
  BY DEF TypeOK, Types, Results
<1>1. CASE wait_busy
  <2>1. host' = host /\ ctl' = ctl
    BY <1>1 DEF wait_busy
  <2>2. CASE Return("ETIMEDOUT") /\ UNCHANGED <<reg, hist>>
    BY <1>0, <2>1, <2>2, ReturnTypes, DriverTypeOK DEF Types
  <2>3. CASE ~LastPoll /\ Again /\ UNCHANGED <<loc, reg, hist>>
    BY <1>0, <2>1, <2>3, GotoTypes, DriverTypeOK DEF Types
  <2>4. CASE /\ Writel(Bits)
             /\ hist' = [hist EXCEPT !.clean = ~ctl.tr.active /\ ctl.tr.xfer = "none"]
             /\ Goto("issue") /\ UNCHANGED loc
    <3>1. hist' \in History
      BY <1>0, <2>4 DEF Types, History
    <3>2. pc' \in PC /\ polls' \in 0 .. MaxPolls
      BY <2>4, GotoTypes DEF PC
    <3>. QED BY <1>0, <2>1, <2>4, <3>1, <3>2, WritelTypes, DriverTypeOK DEF Types
  <2>. QED BY <1>1, <2>2, <2>3, <2>4 DEF wait_busy
<1>2. CASE issue
  <2>1. CASE Return("-1") /\ UNCHANGED <<host, reg, ctl, hist>>
    BY <1>0, <2>1, ReturnTypes, DriverTypeOK DEF Types
  <2>2. ASSUME NEW f \in Words, Len(f) <= DEPTH, NEW b \in BOOLEAN, Issue(f, b) PROVE TypeOK'
    <3>1. pc' \in PC /\ polls' \in 0 .. MaxPolls /\ loc' = loc
      BY <2>2, GotoTypes DEF PC, Issue
    <3>2. reg' \in Registers /\ reg'.fifo = Old(f)
      BY <1>0, <2>2, WordsMoved DEF Issue, Types, Registers
    <3>3. host' \in Host /\ host.need_init \in BOOLEAN
      BY <1>0, <2>2 DEF Issue, Types, Host
    <3>4. ctl' \in Device
      <4>1. ctl.tr \in Transfer /\ loc.cmd \in Command
        BY <1>0 DEF Types, Device, Locals
      <4>2. [ctl.tr EXCEPT !.active = TRUE, !.init = host.need_init, !.cmd = Sent(loc.cmd)] \in Transfer
        BY <3>3, <4>1, TransferUpdates
      <4>3. PICK t \in Transfer : t = [ctl.tr EXCEPT !.active = TRUE, !.init = host.need_init, !.cmd = Sent(loc.cmd)]
        BY <4>2
      <4>4. ctl' = [ctl EXCEPT !.tr = t]
        BY <1>0, <2>2, <4>3 DEF Issue, Types, Device
      <4>. QED BY <1>0, <4>4, DeviceUpdates DEF Types
    <3>5. hist' \in History
      BY <2>2, Empty DEF Issue, History
    <3>. QED BY <1>0, <2>2, <3>1, <3>2, <3>3, <3>4, <3>5, WordsMoved, DriverTypeOK DEF Types
  <2>3. reg.fifo \in Words /\ <<>> \in Words /\ Len(<<>>) <= DEPTH /\ hist.clean \in BOOLEAN
    BY <1>0, DepthAssumption DEF Types, Registers, Words, History
  <2>. QED BY <1>0, <1>2, <2>1, <2>2, <2>3 DEF issue
<1>3. CASE wait_cdone
  <2>1. UNCHANGED <<host, ctl, hist>>
    BY <1>3 DEF wait_cdone
  <2>2. reg' \in Registers /\ reg'.fifo = reg.fifo
    BY <1>0, <1>3, WritelTypes DEF wait_cdone, Types
  <2>3. CASE Again /\ ~LastPoll /\ loc' = loc
    BY <1>0, <2>1, <2>2, <2>3, GotoTypes, DriverTypeOK DEF Types
  <2>4. CASE \E r \in {"0", "EIO", "ETIMEDOUT"} : Return(r)
    BY <1>0, <2>1, <2>2, <2>4, ReturnTypes, DriverTypeOK DEF Types
  <2>5. CASE Goto("mask") /\ loc' = [loc EXCEPT !.size = loc.cmd.words]
    <3>1. pc' \in PC /\ polls' \in 0 .. MaxPolls
      BY <2>5, GotoTypes DEF PC
    <3>2. loc.cmd.words \in Nat
      <4>1. loc.cmd \in Command
        BY <1>0 DEF Types, Locals
      <4>. QED BY <4>1, Commands
    <3>3. loc' \in Locals /\ loc'.size = loc.cmd.words /\ loc'.cmd = loc.cmd
      BY <1>0, <2>5, <3>2 DEF Types, Locals
    <3>. QED BY <1>0, <2>1, <2>2, <3>1, <3>2, <3>3, DriverTypeOK DEF Types
  <2>. QED BY <1>3, <2>3, <2>4, <2>5 DEF wait_cdone
<1>. QED BY <1>1, <1>2, <1>3

\* The end of a transfer.
LEMMA FinishTypes ==
    ASSUME TypeOK, Driver, UNCHANGED <<host, ctl, hist>>, NEW m, NEW r \in Results, Finish(m, r)
    PROVE  TypeOK'
<1>1. Types /\ loc.size <= loc.cmd.words /\ Len(reg.fifo) <= DEPTH
  BY DEF TypeOK, Types
<1>2. Writel(m) /\ Return(r)
  BY DEF Finish
<1>. QED BY <1>1, <1>2, WritelTypes, ReturnTypes, DriverTypeOK DEF Types

\* dwmci_data_transfer.
LEMMA MoveTypes ==
    ASSUME TypeOK, LocalInv, FifothInv, Driver, read_mask \/ clear_rx \/ drain \/ fill \/ check
    PROVE  TypeOK'
<1>0. /\ Types /\ loc.size <= loc.cmd.words /\ Len(reg.fifo) <= DEPTH
      /\ {"0", "EINVAL", "ETIMEDOUT"} \subseteq Results
  BY DEF TypeOK, Types, Results
<1>1. reg.rintsts \in SUBSET Bits /\ reg.fifo \in Words /\ Len(reg.fifo) \in Nat
  BY <1>0 DEF Types, Registers, Words
<1>2. loc.size \in Nat /\ loc.cmd.words \in Nat /\ loc.rounds \in 0 .. MaxPolls
  <2>1. loc.size \in Nat /\ loc.cmd \in Command /\ loc.rounds \in 0 .. MaxPolls
    BY <1>0 DEF Types, Locals
  <2>. QED BY <2>1, Commands
<1>3. CASE read_mask
  <2>1. UNCHANGED <<host, ctl, hist>>
    BY <1>3 DEF read_mask
  <2>2. CASE "DATA_ERR" \in reg.rintsts
    BY <1>0, <1>3, <2>1, <2>2, FinishTypes DEF read_mask
  <2>3. CASE "DATA_ERR" \notin reg.rintsts
    <3>1. loc' = [loc EXCEPT !.mask = reg.rintsts] /\ reg' = reg
      BY <1>3, <2>3 DEF read_mask
    <3>2. loc' \in Locals /\ loc'.size = loc.size /\ loc'.cmd = loc.cmd
      BY <1>0, <1>1, <3>1 DEF Types, Locals
    <3>3. pc' \in PC /\ polls' \in 0 .. MaxPolls
      <4>1. \E l \in {"clear_rx", "fill", "check"} : Goto(l)
        BY <1>3, <2>3 DEF read_mask
      <4>. QED BY <4>1, GotoTypes DEF PC
    <3>. QED BY <1>0, <2>1, <3>1, <3>2, <3>3, DriverTypeOK DEF Types
  <2>. QED BY <2>2, <2>3
<1>4. CASE clear_rx
  <2>1. UNCHANGED <<loc, host, ctl, hist>> /\ Writel({"RXDR", "DTO"}) /\ Goto("drain")
    BY <1>4 DEF clear_rx
  <2>2. pc' \in PC /\ polls' \in 0 .. MaxPolls
    BY <2>1, GotoTypes DEF PC
  <2>. QED BY <1>0, <2>1, <2>2, WritelTypes, DriverTypeOK DEF Types
<1>5. CASE drain
  <2>1. UNCHANGED <<host, ctl>>
    BY <1>5 DEF drain
  <2>2. pc' \in PC /\ polls' \in 0 .. MaxPolls
    BY <1>5, GotoTypes DEF drain, PC
  <2>3. CASE UNCHANGED <<loc, reg, hist>>
    BY <1>0, <2>1, <2>2, <2>3, DriverTypeOK DEF Types
  <2>4. CASE ~ UNCHANGED <<loc, reg, hist>>
    <3>1. PICK len \in 0 .. Len(reg.fifo) :
            /\ len <= loc.size
            /\ hist' = [hist EXCEPT !.buf = @ \o SubSeq(reg.fifo, 1, len)]
            /\ reg' = [reg EXCEPT !.fifo = SubSeq(@, len + 1, Len(@))]
            /\ loc' = [loc EXCEPT !.size = @ - len]
      <4>1. Least(loc.size, Len(reg.fifo)) \in 0 .. Len(reg.fifo) /\ Least(loc.size, Len(reg.fifo)) <= loc.size
        BY <1>1, <1>2 DEF Least
      <4>. QED BY <1>5, <2>4, <4>1 DEF drain
    <3>2. loc' \in Locals /\ loc'.size = loc.size - len /\ loc'.cmd = loc.cmd
      <4>1. PICK n \in Nat : n = loc.size - len
        BY <1>2, <3>1
      <4>2. loc' = [loc EXCEPT !.size = n] /\ loc \in Locals
        BY <1>0, <3>1, <4>1 DEF Types, Locals
      <4>3. loc' \in Locals
        BY <4>2, LocalUpdates
      <4>. QED BY <4>1, <4>2, <4>3 DEF Locals
    <3>3. reg' \in Registers /\ reg'.fifo = SubSeq(reg.fifo, len + 1, Len(reg.fifo))
      <4>1. SubSeq(reg.fifo, len + 1, Len(reg.fifo)) \in Words
        BY <1>1, WordsMoved
      <4>. QED BY <1>0, <3>1, <4>1 DEF Types, Registers
    <3>4. hist' \in History
      <4>1. hist.buf \in Words
        BY <1>0 DEF Types, History
      <4>2. SubSeq(reg.fifo, 1, len) \in Words
        BY <1>1, WordsMoved
      <4>3. hist.buf \o SubSeq(reg.fifo, 1, len) \in Words
        BY <4>1, <4>2, WordsMoved
      <4>. QED BY <1>0, <3>1, <4>3 DEF Types, History
    <3>5. Len(reg'.fifo) <= DEPTH
      <4>1. Len(SubSeq(reg.fifo, len + 1, Len(reg.fifo))) = Len(reg.fifo) - len
        BY <1>1, WordsMoved
      <4>. QED BY <1>0, <1>1, <3>3, <4>1, DepthAssumption
    <3>. QED BY <1>0, <1>1, <1>2, <2>1, <2>2, <3>2, <3>3, <3>4, <3>5, DriverTypeOK DEF Types
  <2>. QED BY <2>3, <2>4
<1>6. CASE fill
  <2>1. UNCHANGED <<host, ctl, hist>> /\ host.ready
    BY <1>6 DEF fill, LocalInv, Sending
  <2>2. pc' \in PC /\ polls' \in 0 .. MaxPolls
    BY <1>6, GotoTypes DEF fill, PC
  <2>3. CASE loc.size = 0 \/ LastPoll
    BY <1>0, <1>6, <2>1, <2>2, <2>3, WritelTypes, DriverTypeOK DEF Types, fill
  <2>4. CASE ~(loc.size = 0 \/ LastPoll) /\ Len(reg.fifo) >= DEPTH
    BY <1>0, <1>6, <2>1, <2>2, <2>4, DriverTypeOK DEF Types, fill
  <2>5. CASE ~(loc.size = 0 \/ LastPoll) /\ ~(Len(reg.fifo) >= DEPTH)
    <3>1. Len(reg.fifo) < DEPTH /\ loc.size # 0
      BY <1>1, <2>5, DepthAssumption
    <3>2. PICK n \in 1 .. loc.size : n = Room
      BY <2>1, <3>1, RoomFits
    <3>3. PICK t \in Words : t = [k \in 1 .. Room |-> "new"] /\ Len(t) = n /\ Len(reg.fifo) + n <= DEPTH
      BY <2>1, <3>1, <3>2, RoomFits
    <3>4. PICK size \in Nat : size = loc.size - n
      BY <1>2, <3>2
    <3>5. /\ reg' = [reg EXCEPT !.fifo = reg.fifo \o t] /\ loc' = [loc EXCEPT !.size = size]
      BY <1>0, <1>6, <2>5, <3>2, <3>3, <3>4 DEF fill, Types, Registers, Locals
    <3>6. reg' \in Registers /\ reg'.fifo = reg.fifo \o t /\ Len(reg'.fifo) <= DEPTH
      <4>1. reg.fifo \o t \in Words /\ Len(reg.fifo \o t) = Len(reg.fifo) + n
        BY <1>1, <3>3, WordsMoved
      <4>2. reg' \in Registers /\ reg'.fifo = reg.fifo \o t
        BY <1>0, <3>5, <4>1 DEF Types, Registers
      <4>. QED BY <3>3, <4>1, <4>2
    <3>7. loc' \in Locals /\ loc'.size = size /\ loc'.cmd = loc.cmd
      BY <1>0, <3>5 DEF Types, Locals
    <3>8. loc'.size <= loc'.cmd.words
      BY <1>0, <1>2, <3>2, <3>4, <3>7
    <3>. QED BY <1>0, <2>1, <2>2, <3>6, <3>7, <3>8, DriverTypeOK DEF Types
  <2>. QED BY <2>3, <2>4, <2>5
<1>7. CASE check
  <2>1. UNCHANGED <<host, ctl, hist>>
    BY <1>7 DEF check
  <2>2. CASE \E r \in {"0", "ETIMEDOUT"} : Finish(loc.mask, r)
    BY <1>0, <2>1, <2>2, FinishTypes
  <2>3. CASE /\ loc.rounds < MaxPolls /\ loc' = [loc EXCEPT !.rounds = @ + 1] /\ Goto("mask")
             /\ UNCHANGED reg
    <3>1. loc.rounds + 1 \in 0 .. MaxPolls
      BY <1>2, <2>3, BoundAssumption
    <3>2. loc' \in Locals /\ loc'.size = loc.size /\ loc'.cmd = loc.cmd
      BY <1>0, <2>3, <3>1 DEF Types, Locals
    <3>3. pc' \in PC /\ polls' \in 0 .. MaxPolls
      BY <2>3, GotoTypes DEF PC
    <3>. QED BY <1>0, <2>1, <2>3, <3>2, <3>3, DriverTypeOK DEF Types
  <2>. QED BY <1>7, <2>2, <2>3 DEF check
<1>. QED BY <1>3, <1>4, <1>5, <1>6, <1>7

\* Every step keeps the types, and the FIFO never overruns.
LEMMA TypeNext ==
    ASSUME TypeOK, LocalInv, FifothInv, TuneInv, Next
    PROVE  TypeOK'
<1>1. CASE Driver
  BY <1>1, SetupTypes, TuneTypes, SendTypes, MoveTypes DEF Driver
<1>. QED BY <1>1, CallerTypes, ControllerTypes DEF Next
-----------------------------------------------------------------------------
\* The driver's locals, and the depth of the FIFO.

\* What the operations start with, and the way through set_ios and dwmci_init.
LEMMA LocalNext ==
    ASSUME TypeOK, LocalInv, Next
    PROVE  LocalInv'
<1>0. Types /\ loc.cmd \in Command /\ loc.then \in {"idle", "init_rest", "ios_rest"}
  BY DEF TypeOK, Types, Locals
<1>1. CASE pc' = "return"
  BY <1>1 DEF LocalInv, Sending
<1>2. CASE Caller /\ pc' # "return"
  <2>1. pc = "idle" /\ loc.cmd = NoCommand
    BY <1>2 DEF Caller, dwmci_init, tune, set_ios, dwmci_send_cmd, LocalInv, Sending
  <2>2. CASE dwmci_init
    BY <1>0, <1>2, <2>1, <2>2 DEF dwmci_init, Return, Goto, LocalInv, Sending, Types, Locals
  <2>3. CASE tune
    BY <2>1, <2>3 DEF tune, Goto, LocalInv, Sending
  <2>4. ASSUME NEW freq \in Freq, set_ios(freq) PROVE LocalInv'
    BY <1>0, <2>1, <2>4 DEF set_ios, Goto, LocalInv, Sending, Types, Locals
  <2>5. ASSUME NEW c \in Command, dwmci_send_cmd(c) PROVE LocalInv'
    BY <2>5 DEF dwmci_send_cmd, Goto, LocalInv, Sending
  <2>. QED BY <1>2, <2>2, <2>3, <2>4, <2>5 DEF Caller
<1>3. CASE Controller
  <2>1. pc' = pc /\ loc' = loc /\ host' = host
    BY <1>3 DEF Controller, ctl_command, ctl_receive, ctl_transmit, ctl_data_over, ctl_update
  <2>. QED BY <2>1 DEF LocalInv
<1>4. CASE Driver /\ pc' # "return"
  <2>1. CASE init_rest \/ ios_rest \/ tune_end
    BY <1>4, <2>1 DEF init_rest, ios_rest, tune_end, Return, Goto
  <2>2. CASE setup_bus \/ setup_bus_enable
    <3>1. /\ loc' = loc /\ loc.then # "idle" /\ loc.cmd = NoCommand
          /\ pc' \in {"upd1", "upd2", loc.then}
      <4>1. pc \in {"setup", "upd1", "upd2"} /\ loc' = loc
        BY <2>2 DEF setup_bus, setup_bus_enable
      <4>2. loc.then # "idle" /\ loc.cmd = NoCommand
        BY <4>1 DEF LocalInv, Sending
      <4>3. setup_bus => pc' \in {"upd1", "upd2", loc.then}
        BY DEF setup_bus, Goto
      <4>4. setup_bus_enable => pc' \in {"upd1", "upd2", loc.then}
        BY DEF setup_bus_enable, Goto, Again
      <4>. QED BY <2>2, <4>1, <4>2, <4>3, <4>4
    <3>. QED BY <1>0, <3>1 DEF LocalInv, Sending
  <2>3. CASE returned
    BY <2>3 DEF returned, Goto, LocalInv, Sending, NoLocals
  <2>4. CASE tune_phase
    <3>1. pc = "tune" /\ pc' \in {"tune", "tune_end"} /\ loc'.cmd = loc.cmd
      BY <1>0, <2>4 DEF tune_phase, Goto, Types, Locals
    <3>. QED BY <3>1 DEF LocalInv, Sending
  <2>5. CASE wait_busy \/ issue \/ wait_cdone \/ read_mask \/ clear_rx \/ drain \/ fill \/ check
    <3>1. pc \in Sending /\ pc' \in Sending
      <4>1. CASE wait_busy \/ issue \/ wait_cdone
        BY <1>4, <4>1 DEF wait_busy, issue, Issue, wait_cdone, Return, Goto, Again, Sending
      <4>2. CASE read_mask
        BY <1>4, <4>2 DEF read_mask, Finish, Return, Goto, Sending
      <4>3. CASE clear_rx \/ drain \/ fill \/ check
        BY <1>4, <4>3 DEF clear_rx, drain, fill, check, Finish, Return, Goto, Again, Sending
      <4>. QED BY <2>5, <4>1, <4>2, <4>3
    <3>2. host'.ready = host.ready
      <4>1. host' = host \/ host' = [host EXCEPT !.need_init = FALSE]
        BY <2>5 DEF wait_busy, issue, Issue, wait_cdone, read_mask, clear_rx, drain, fill, check
      <4>. QED BY <1>0, <4>1 DEF Types, Host
    <3>. QED BY <3>1, <3>2 DEF LocalInv, Sending
  <2>. QED BY <1>4, <2>1, <2>2, <2>3, <2>4, <2>5 DEF Driver
<1>. QED BY <1>1, <1>2, <1>3, <1>4 DEF Next

\* FIFOTH and what the driver keeps of it.
LEMMA FifothNext ==
    ASSUME TypeOK, FifothInv, Next
    PROVE  FifothInv'
<1>0. Types
  BY DEF TypeOK, Types
<1>1. CASE init_rest
  <2>1. PICK v : /\ host' = [host EXCEPT !.fifoth_val = v, !.ready = TRUE]
                 /\ reg' = [reg EXCEPT !.rintsts = {}, !.fifoth = v, !.clkena = FALSE]
                 /\ v = IF host.fifoth_val = -1 THEN (reg.fifoth + 1) \div 2 - 1 ELSE host.fifoth_val
    BY <1>1 DEF init_rest
  <2>2. v = DEPTH \div 2 - 1 /\ v # -1
    BY <2>1, DepthAssumption DEF FifothInv
  <2>3. host'.fifoth_val = v /\ reg'.fifoth = v
    BY <1>0, <2>1 DEF Types, Host, Registers
  <2>. QED BY <2>2, <2>3 DEF FifothInv
<1>2. CASE ~init_rest
  <2>1. reg'.fifoth = reg.fifoth
    <3>1. CASE Caller
      BY <1>0, <3>1 DEF Caller, dwmci_init, tune, set_ios, dwmci_send_cmd, Types, Registers
    <3>2. CASE Controller
      BY <1>0, <3>2 DEF Controller, ctl_command, ctl_receive, ctl_transmit, ctl_data_over, ctl_update, Raised, Types, Registers
    <3>3. CASE setup_bus \/ setup_bus_enable \/ ios_rest \/ returned
      BY <1>0, <3>3 DEF setup_bus, setup_bus_enable, ios_rest, returned, Types, Registers
    <3>4. CASE wait_busy \/ issue \/ wait_cdone
      BY <1>0, <3>4 DEF wait_busy, issue, Issue, wait_cdone, Writel, Types, Registers
    <3>5. CASE read_mask \/ clear_rx \/ drain \/ fill \/ check
      BY <1>0, <3>5 DEF read_mask, clear_rx, drain, fill, check, Finish, Writel, Types, Registers
    <3>6. CASE tune_phase \/ tune_end
      BY <1>0, <3>6 DEF tune_phase, tune_end, Writel, Types, Registers
    <3>. QED BY <1>2, <3>1, <3>2, <3>3, <3>4, <3>5, <3>6 DEF Next, Driver
  <2>2. host'.fifoth_val = host.fifoth_val /\ (host'.ready = host.ready \/ host'.ready = FALSE)
    <3>1. CASE Caller
      BY <1>0, <3>1 DEF Caller, dwmci_init, tune, set_ios, dwmci_send_cmd, Types, Host
    <3>2. CASE Controller
      BY <3>2 DEF Controller, ctl_command, ctl_receive, ctl_transmit, ctl_data_over, ctl_update
    <3>3. CASE setup_bus \/ setup_bus_enable \/ ios_rest \/ returned
      BY <1>0, <3>3 DEF setup_bus, setup_bus_enable, ios_rest, returned, Types, Host
    <3>4. CASE wait_busy \/ issue \/ wait_cdone
      BY <1>0, <3>4 DEF wait_busy, issue, Issue, wait_cdone, Types, Host
    <3>5. CASE read_mask \/ clear_rx \/ drain \/ fill \/ check \/ tune_phase \/ tune_end
      BY <3>5 DEF read_mask, clear_rx, drain, fill, check, tune_phase, tune_end
    <3>. QED BY <1>2, <3>1, <3>2, <3>3, <3>4, <3>5 DEF Next, Driver
  <2>. QED BY <2>1, <2>2 DEF FifothInv
<1>. QED BY <1>1, <1>2
-----------------------------------------------------------------------------
\* DWMCI_CMD_SEND_INIT.

\* A step that has nothing to do with commands.
NoFlag ==
    /\ ctl'.tr = ctl.tr /\ ctl'.started = ctl.started /\ host'.need_init = host.need_init
    /\ pc' # "issue" /\ (hist'.clean => hist.clean)

\* Such a step keeps the flag as it should be.
LEMMA NoFlagNext ==
    ASSUME FlagInv, FirstCommandInits, NoFlag
    PROVE  FlagInv' /\ FirstCommandInits'
BY DEF FlagInv, FirstCommandInits, NoFlag

\* Only dwmci_init, the issue of a command and its end have to do with the flag.
LEMMA FlagNext ==
    ASSUME TypeOK, FlagInv, FirstCommandInits, Next
    PROVE  FlagInv' /\ FirstCommandInits'
<1>0. Types /\ ctl.tr \in Transfer
  BY DEF TypeOK, Types, Device
<1>1. CASE dwmci_init
  <2>1. CASE NoFlag
    BY <2>1, NoFlagNext
  <2>2. CASE ~NoFlag
    <3>1. /\ ctl' = [ctl EXCEPT !.tr = Quiet, !.upd = FALSE, !.started = FALSE]
          /\ host' = [host EXCEPT !.need_init = TRUE, !.ready = FALSE]
          /\ pc' = "setup"
      BY <1>0, <1>1, <2>2 DEF dwmci_init, Return, Goto, NoFlag, Types, Host
    <3>2. ctl'.tr = Quiet /\ ctl'.started = FALSE
      BY <1>0, <3>1 DEF Types, Device
    <3>3. host'.need_init = TRUE
      BY <1>0, <3>1 DEF Types, Host
    <3>4. ctl'.tr.active = FALSE
      BY <3>2 DEF Quiet
    <3>. QED BY <3>1, <3>2, <3>3, <3>4 DEF FlagInv, FirstCommandInits
  <2>. QED BY <2>1, <2>2
<1>2. CASE Caller /\ ~dwmci_init
  BY <1>2, NoFlagNext DEF Caller, tune, set_ios, dwmci_send_cmd, Goto, NoFlag
<1>3. CASE ctl_command
  <2>1. PICK t : /\ ctl' = [ctl EXCEPT !.started = TRUE, !.tr = t] /\ t.active = FALSE
    <3>1. PICK x, n : ctl' = [ctl EXCEPT !.started = TRUE, !.tr = [Quiet EXCEPT !.xfer = x, !.left = n]]
      BY <1>3 DEF ctl_command
    <3>2. [Quiet EXCEPT !.xfer = x, !.left = n].active = FALSE
      BY DEF Quiet
    <3>. QED BY <3>1, <3>2
  <2>2. ctl'.tr = t /\ ctl'.started = TRUE
    BY <1>0, <2>1 DEF Types, Device
  <2>3. ctl.tr.active /\ UNCHANGED <<pc, host, hist>>
    BY <1>3 DEF ctl_command
  <2>. QED BY <2>1, <2>2, <2>3 DEF FlagInv, FirstCommandInits
<1>4. CASE Controller /\ ~ctl_command
  <2>1. UNCHANGED <<pc, host>> /\ (hist'.clean = hist.clean)
    BY <1>0, <1>4 DEF Controller, ctl_receive, ctl_transmit, ctl_data_over, ctl_update, Types, History
  <2>2. ctl'.tr.active = ctl.tr.active /\ ctl'.tr.init = ctl.tr.init /\ ctl'.started = ctl.started
    <3>1. CASE ctl_receive \/ ctl_transmit
      <4>1. ctl' = [ctl EXCEPT !.tr = [ctl.tr EXCEPT !.left = ctl.tr.left - 1]]
        BY <1>0, <3>1 DEF ctl_receive, ctl_transmit, Types, Device
      <4>. QED BY <1>0, <4>1 DEF Types, Device, Transfer
    <3>2. CASE ctl_data_over
      <4>1. ctl' = [ctl EXCEPT !.tr = [ctl.tr EXCEPT !.xfer = "none", !.left = 0]]
        BY <1>0, <3>2 DEF ctl_data_over, Types, Device
      <4>. QED BY <1>0, <4>1 DEF Types, Device, Transfer
    <3>3. CASE ctl_update
      BY <1>0, <3>3 DEF ctl_update, Types, Device
    <3>. QED BY <1>4, <3>1, <3>2, <3>3 DEF Controller
  <2>. QED BY <2>1, <2>2 DEF FlagInv, FirstCommandInits
<1>5. CASE wait_busy
  <2>1. UNCHANGED <<host, ctl>>
    BY <1>5 DEF wait_busy
  <2>2. CASE pc' = "issue"
    <3>1. hist'.clean => ~ctl.tr.active
      BY <1>0, <1>5, <2>2 DEF wait_busy, Return, Goto, Again, Types, History
    <3>. QED BY <2>1, <3>1 DEF FlagInv, FirstCommandInits
  <2>3. CASE pc' # "issue"
    BY <1>5, <2>1, <2>3, NoFlagNext DEF wait_busy, Return, Goto, Again, NoFlag
  <2>. QED BY <2>2, <2>3
<1>6. CASE issue
  <2>1. CASE Return("-1") /\ UNCHANGED <<host, reg, ctl, hist>>
    BY <2>1, NoFlagNext DEF Return, Goto, NoFlag
  <2>2. ASSUME NEW f, NEW b, Issue(f, b), b => hist.clean
        PROVE  FlagInv' /\ FirstCommandInits'
    <3>1. /\ ctl' = [ctl EXCEPT !.tr = [ctl.tr EXCEPT !.active = TRUE, !.init = host.need_init, !.cmd = Sent(loc.cmd)]]
          /\ host' = [host EXCEPT !.need_init = FALSE]
          /\ hist' = [NoHistory EXCEPT !.clean = b] /\ pc' = "cdone"
      BY <1>0, <2>2 DEF Issue, Goto, Types, Device
    <3>2. ctl'.tr.active = TRUE /\ ctl'.tr.init = host.need_init /\ ctl'.started = ctl.started
      BY <1>0, <3>1 DEF Types, Device, Transfer
    <3>3. host'.need_init = FALSE /\ hist'.clean = b
      BY <1>0, <3>1 DEF Types, Host, NoHistory
    <3>4. b => (host.need_init <=> ~ctl.started)
      BY <1>6, <2>2 DEF issue, FlagInv
    <3>. QED BY <3>1, <3>2, <3>3, <3>4 DEF FlagInv, FirstCommandInits
  <2>3. Issue(reg.fifo, hist.clean) \/ Issue(<<>>, hist.clean) => FlagInv' /\ FirstCommandInits'
    BY <2>2
  <2>4. Issue(reg.fifo, FALSE) => FlagInv' /\ FirstCommandInits'
    BY <2>2
  <2>. QED BY <1>6, <2>1, <2>3, <2>4 DEF issue
<1>7. CASE Driver /\ ~wait_busy /\ ~issue
  <2>1. CASE init_rest \/ setup_bus \/ setup_bus_enable \/ ios_rest \/ returned
    <3>1. pc' # "issue"
      <4>1. loc.then # "issue"
        BY <1>0 DEF Types, Locals
      <4>2. setup_bus_enable => pc' # "issue"
        BY <4>1 DEF setup_bus_enable, Goto, Again
      <4>. QED BY <2>1, <4>1, <4>2 DEF init_rest, setup_bus, ios_rest, returned, Return, Goto
    <3>2. host'.need_init = host.need_init
      BY <1>0, <2>1 DEF init_rest, setup_bus, setup_bus_enable, ios_rest, returned, Types, Host
    <3>3. ctl'.tr = ctl.tr /\ ctl'.started = ctl.started
      BY <1>0, <2>1 DEF init_rest, setup_bus, setup_bus_enable, ios_rest, returned, Types, Device
    <3>4. hist'.clean => hist.clean
      BY <2>1 DEF init_rest, setup_bus, setup_bus_enable, ios_rest, returned, NoHistory
    <3>. QED BY <3>1, <3>2, <3>3, <3>4, NoFlagNext DEF NoFlag
  <2>2. CASE wait_cdone \/ read_mask \/ clear_rx \/ drain \/ fill \/ check \/ tune_phase \/ tune_end
    <3>1. pc' # "issue"
      BY <2>2 DEF wait_cdone, read_mask, clear_rx, drain, fill, check, tune_phase, tune_end, Finish, Return, Goto, Again
    <3>2. UNCHANGED <<host, ctl>>
      BY <2>2 DEF wait_cdone, read_mask, clear_rx, drain, fill, check, tune_phase, tune_end
    <3>3. hist'.clean = hist.clean
      BY <1>0, <2>2 DEF wait_cdone, read_mask, clear_rx, drain, fill, check, tune_phase, tune_end, Types, History
    <3>. QED BY <3>1, <3>2, <3>3, NoFlagNext DEF NoFlag
  <2>. QED BY <1>7, <2>1, <2>2 DEF Driver
<1>. QED BY <1>1, <1>2, <1>3, <1>4, <1>5, <1>6, <1>7 DEF Next
-----------------------------------------------------------------------------
\* The clock.

\* A step outside dwmci_setup_bus that leaves the clock alone, or takes an update back.
NoClock ==
    /\ pc' \notin {"upd1", "upd2"} /\ pc \notin {"upd1", "upd2"}
    /\ host'.clock = host.clock /\ host'.bus_hz = host.bus_hz
    /\ ctl'.clk = ctl.clk /\ ctl'.clk_lost = ctl.clk_lost
    /\ ctl'.upd = ctl.upd \/ ctl'.upd = FALSE

\* Such a step keeps what is known of the clock.
LEMMA NoClockNext ==
    ASSUME ClockInv, NoClock
    PROVE  ClockInv'
BY DEF ClockInv, NoClock

\* Commands and transfers leave the clock alone.
LEMMA OtherClock ==
    ASSUME Types, LocalInv, Next,
           ~setup_bus, ~setup_bus_enable, ~Controller
    PROVE  NoClock
<1>0. loc.then \notin {"upd1", "upd2"}
  BY DEF Types, Locals
<1>1. CASE dwmci_init
  BY <1>1 DEF dwmci_init, Return, Goto, NoClock, Types, Host, Device
<1>2. CASE Caller /\ ~dwmci_init
  BY <1>2 DEF Caller, tune, set_ios, dwmci_send_cmd, Goto, NoClock
<1>3. CASE init_rest
  BY <1>3 DEF init_rest, Return, Goto, NoClock, Types, Host
<1>4. CASE ios_rest \/ returned
  BY <1>4 DEF ios_rest, returned, Return, Goto, NoClock
<1>5. CASE wait_busy \/ wait_cdone \/ read_mask
  BY <1>5 DEF wait_busy, wait_cdone, read_mask, Finish, Return, Goto, Again, NoClock
<1>6. CASE clear_rx \/ drain \/ fill \/ check \/ tune_phase \/ tune_end
  BY <1>6 DEF clear_rx, drain, fill, check, tune_phase, tune_end, Finish, Return, Goto, Again, NoClock
<1>7. CASE issue
  <2>1. CASE Return("-1") /\ UNCHANGED <<host, reg, ctl, hist>>
    BY <1>7, <2>1 DEF issue, Return, Goto, NoClock
  <2>2. ASSUME NEW f, NEW b, Issue(f, b) PROVE NoClock
    <3>1. /\ ctl' = [ctl EXCEPT !.tr = [ctl.tr EXCEPT !.active = TRUE, !.init = host.need_init, !.cmd = Sent(loc.cmd)]]
          /\ host' = [host EXCEPT !.need_init = FALSE] /\ pc' = "cdone" /\ pc = "issue"
      BY <1>7, <2>2 DEF issue, Issue, Goto, Types, Device
    <3>2. host'.clock = host.clock /\ host'.bus_hz = host.bus_hz
      BY <3>1 DEF Types, Host
    <3>3. ctl'.clk = ctl.clk /\ ctl'.clk_lost = ctl.clk_lost /\ ctl'.upd = ctl.upd
      BY <3>1 DEF Types, Device
    <3>. QED BY <3>1, <3>2, <3>3 DEF NoClock
  <2>3. \A f, b : Issue(f, b) => NoClock
    BY <2>2
  <2>. QED BY <1>7, <2>1, <2>3 DEF issue
<1>. QED BY <1>1, <1>2, <1>3, <1>4, <1>5, <1>6, <1>7 DEF Next, Driver

\* The divider, then the clock itself, and the recorded value last.
LEMMA ClockNext ==
    ASSUME TypeOK, LocalInv, ClockInv, Next
    PROVE  ClockInv'
<1>0. /\ Types /\ loc.then \in {"idle", "init_rest", "ios_rest"} /\ loc.freq \in Nat /\ host.bus_hz \in Nat
      /\ reg.clkdiv \in Nat
  <2>1. Types
    BY DEF TypeOK, Types
  <2>2. loc.then \in {"idle", "init_rest", "ios_rest"} /\ loc.freq \in Freq \cup {0}
    BY <2>1 DEF Types, Locals
  <2>3. host.bus_hz \in Nat
    BY <2>1, ClockAssumption DEF Types, Host
  <2>4. reg.clkdiv \in Nat
    BY <2>1 DEF Types, Registers
  <2>. QED BY <2>1, <2>2, <2>3, <2>4, Frequencies
<1>1. CASE setup_bus
  <2>1. CASE loc.freq \in {0, host.clock} \/ host.bus_hz = 0
    <3>1. NoClock
      BY <1>0, <1>1, <2>1 DEF setup_bus, Goto, NoClock
    <3>. QED BY <3>1, NoClockNext
  <2>2. CASE ~(loc.freq \in {0, host.clock} \/ host.bus_hz = 0)
    <3>1. /\ pc' = "upd1" /\ loc' = loc /\ host' = host
          /\ reg' = [reg EXCEPT !.clkena = FALSE, !.clkdiv = Divider(host.bus_hz, loc.freq)]
      BY <1>1, <2>2 DEF setup_bus, Goto
    <3>2. reg'.clkdiv = Divider(host.bus_hz, loc.freq)
      BY <1>0, <3>1 DEF Types, Registers
    <3>3. loc.freq # 0 /\ NoFaster(host.bus_hz, loc.freq, Divider(host.bus_hz, loc.freq))
      BY <1>0, <2>2, DividerBound
    <3>. QED BY <3>1, <3>2, <3>3 DEF ClockInv
  <2>. QED BY <2>1, <2>2
<1>2. CASE setup_bus_enable
  <2>1. CASE LastPoll
    <3>1. /\ pc' = loc.then /\ ctl' = [ctl EXCEPT !.clk_lost = TRUE]
      BY <1>2, <2>1 DEF setup_bus_enable, Goto
    <3>2. ctl'.clk_lost
      BY <1>0, <3>1 DEF Types, Device
    <3>. QED BY <1>0, <3>1, <3>2 DEF ClockInv
  <2>2. CASE ~LastPoll /\ ctl.upd
    <3>1. pc' = pc /\ UNCHANGED <<loc, host, reg, ctl>>
      BY <1>2, <2>2 DEF setup_bus_enable, Again
    <3>. QED BY <3>1 DEF ClockInv
  <2>3. CASE ~LastPoll /\ ~ctl.upd /\ pc = "upd1"
    <3>1. /\ pc' = "upd2" /\ reg' = [reg EXCEPT !.clkena = TRUE] /\ ctl' = [ctl EXCEPT !.upd = TRUE]
          /\ UNCHANGED <<loc, host>>
      BY <1>2, <2>3 DEF setup_bus_enable, Goto
    <3>2. reg'.clkdiv = reg.clkdiv /\ reg'.clkena
      BY <1>0, <3>1 DEF Types, Registers
    <3>3. ctl'.upd
      BY <1>0, <3>1 DEF Types, Device
    <3>. QED BY <2>3, <3>1, <3>2, <3>3 DEF ClockInv
  <2>4. CASE ~LastPoll /\ ~ctl.upd /\ pc = "upd2"
    <3>1. /\ pc' = loc.then /\ host' = [host EXCEPT !.clock = loc.freq]
          /\ ctl' = [ctl EXCEPT !.clk_lost = FALSE]
      BY <1>2, <2>4 DEF setup_bus_enable, Goto
    <3>2. host'.clock = loc.freq /\ host'.bus_hz = host.bus_hz
      BY <1>0, <3>1 DEF Types, Host
    <3>3. ctl'.upd = ctl.upd /\ ctl'.clk = ctl.clk
      BY <1>0, <3>1 DEF Types, Device
    <3>4. ctl.clk = reg.clkdiv /\ NoFaster(host.bus_hz, loc.freq, reg.clkdiv) /\ reg.clkdiv # Off
      BY <1>0, <2>4 DEF ClockInv, Off
    <3>. QED BY <1>0, <2>4, <3>1, <3>2, <3>3, <3>4 DEF ClockInv
  <2>. QED BY <1>2, <2>1, <2>2, <2>3, <2>4 DEF setup_bus_enable
<1>3. CASE ctl_update
  <2>1. /\ UNCHANGED <<pc, loc, host, reg>> /\ ctl.upd
        /\ ctl' = [ctl EXCEPT !.upd = FALSE, !.clk = IF reg.clkena THEN reg.clkdiv ELSE Off]
    BY <1>3 DEF ctl_update
  <2>2. /\ ctl'.clk_lost = ctl.clk_lost /\ ctl'.clk = IF reg.clkena THEN reg.clkdiv ELSE Off
    BY <1>0, <2>1 DEF Types, Device
  <2>. QED BY <2>1, <2>2 DEF ClockInv
<1>4. CASE Controller /\ ~ctl_update
  <2>1. UNCHANGED <<pc, loc, host>>
    BY <1>4 DEF Controller, ctl_command, ctl_receive, ctl_transmit, ctl_data_over
  <2>2. reg'.clkdiv = reg.clkdiv /\ reg'.clkena = reg.clkena
    BY <1>0, <1>4 DEF Controller, ctl_command, ctl_receive, ctl_transmit, ctl_data_over, Raised, Types, Registers
  <2>3. ctl'.upd = ctl.upd /\ ctl'.clk = ctl.clk /\ ctl'.clk_lost = ctl.clk_lost
    BY <1>0, <1>4 DEF Controller, ctl_command, ctl_receive, ctl_transmit, ctl_data_over, Types, Device
  <2>. QED BY <2>1, <2>2, <2>3 DEF ClockInv
<1>5. CASE ~setup_bus /\ ~setup_bus_enable /\ ~Controller
  BY <1>0, <1>5, OtherClock, NoClockNext
<1>. QED BY <1>1, <1>2, <1>3, <1>4, <1>5
-----------------------------------------------------------------------------
\* Tuning.

\* A window of good phases, and its middle.
LEMMA Middle ==
    ASSUME NEW lo \in Nat, NEW hi \in Nat, lo <= hi
    PROVE  /\ (lo + hi) \div 2 \in lo .. hi
           /\ (hi - (lo + hi) \div 2) - ((lo + hi) \div 2 - lo) \in {0, 1}
OBVIOUS

\* The window grows until the first failure.
LEMMA TuneNext ==
    ASSUME TypeOK, LocalInv, TuneInv, PhaseCentred, Next
    PROVE  TuneInv' /\ PhaseCentred'
<1>0. /\ Types /\ PHASES \in Nat \ {0} /\ loc.i \in 0 .. PHASES /\ loc.smpl_raise \in -1 .. PHASES - 1
      /\ loc.smpl_fall \in -1 .. PHASES - 1 /\ loc.good \in SUBSET (0 .. PHASES - 1)
      /\ loc.then \in {"idle", "init_rest", "ios_rest"}
  <2>1. Types
    BY DEF TypeOK, Types
  <2>. QED BY <2>1, BoundAssumption DEF Types, Locals
<1>1. CASE tune_phase
  <2>1. /\ pc = "tune" /\ loc.i \in 0 .. PHASES - 1 /\ loc.smpl_raise < loc.i
        /\ loc.good = IF loc.smpl_raise = -1 THEN {} ELSE loc.smpl_raise .. loc.i - 1
    <3>1. /\ pc = "tune" /\ loc.i < PHASES /\ loc.smpl_raise < loc.i
          /\ loc.good = IF loc.smpl_raise = -1 THEN {} ELSE loc.smpl_raise .. loc.i - 1
      BY <1>1 DEF tune_phase, TuneInv
    <3>. QED BY <1>0, <3>1
  <2>2. PICK err \in BOOLEAN :
          /\ loc' = [loc EXCEPT !.phase = loc.i,
                      !.smpl_raise = IF ~err /\ loc.smpl_raise < 0 THEN loc.i ELSE loc.smpl_raise,
                      !.smpl_fall = IF err /\ loc.smpl_raise >= 0 THEN loc.i - 1 ELSE -1,
                      !.i = loc.i + 1, !.good = IF err THEN loc.good ELSE loc.good \cup {loc.i}]
          /\ pc' = IF (err /\ loc.smpl_raise >= 0) \/ loc.i + 1 = PHASES THEN "tune_end" ELSE "tune"
    BY <1>0, <1>1 DEF tune_phase, Types, Locals, Goto
  <2>3. /\ loc'.smpl_raise = IF ~err /\ loc.smpl_raise < 0 THEN loc.i ELSE loc.smpl_raise
        /\ loc'.smpl_fall = IF err /\ loc.smpl_raise >= 0 THEN loc.i - 1 ELSE -1
        /\ loc'.i = loc.i + 1 /\ loc'.good = IF err THEN loc.good ELSE loc.good \cup {loc.i}
    BY <1>0, <2>2 DEF Types, Locals
  <2>4. pc' # "return" /\ pc' \in {"tune", "tune_end"}
    BY <2>2
  <2>5. CASE err /\ loc.smpl_raise = -1
    BY <1>0, <2>1, <2>2, <2>3, <2>4, <2>5 DEF TuneInv, PhaseCentred
  <2>6. CASE err /\ loc.smpl_raise # -1
    BY <1>0, <2>1, <2>2, <2>3, <2>4, <2>6 DEF TuneInv, PhaseCentred
  <2>7. CASE ~err
    <3>1. PICK lo \in 0 .. PHASES - 1 : lo = IF loc.smpl_raise < 0 THEN loc.i ELSE loc.smpl_raise
      BY <1>0, <2>1
    <3>2. loc'.smpl_raise = lo /\ loc'.smpl_fall = -1 /\ loc'.i = loc.i + 1 /\ lo <= loc.i
      BY <1>0, <2>1, <2>3, <2>7, <3>1
    <3>3. loc'.good = lo .. loc.i
      BY <1>0, <2>1, <2>3, <2>7, <3>1
    <3>. QED BY <1>0, <2>1, <2>2, <2>4, <2>7, <3>1, <3>2, <3>3 DEF TuneInv, PhaseCentred
  <2>. QED BY <2>5, <2>6, <2>7
<1>2. CASE tune_end
  <2>1. pc = "tune_end" /\ pc' = "return"
    BY <1>2 DEF tune_end, Goto
  <2>2. CASE loc.smpl_raise = -1
    <3>1. loc' = [loc EXCEPT !.phase = 0, !.ret = "EINVAL"]
      BY <1>2, <2>2 DEF tune_end
    <3>2. loc'.ret = "EINVAL"
      BY <1>0, <3>1 DEF Types, Locals
    <3>. QED BY <2>1, <3>2 DEF TuneInv, PhaseCentred
  <2>3. CASE loc.smpl_raise # -1
    <3>1. PICK lo \in 0 .. PHASES - 1, hi \in 0 .. PHASES - 1 :
            lo = loc.smpl_raise /\ hi = IF loc.smpl_fall = -1 THEN PHASES - 1 ELSE loc.smpl_fall
      BY <1>0, <2>3
    <3>2. lo <= hi /\ loc.good = lo .. hi
      BY <2>1, <2>3, <3>1 DEF TuneInv
    <3>3. loc' = [loc EXCEPT !.phase = (lo + hi) \div 2, !.ret = "0"]
      BY <1>0, <1>2, <2>3, <3>1 DEF tune_end
    <3>4. loc'.phase = (lo + hi) \div 2 /\ loc'.good = loc.good
      BY <1>0, <3>3 DEF Types, Locals
    <3>5. /\ loc'.phase \in lo .. hi /\ (hi - loc'.phase) - (loc'.phase - lo) \in {0, 1}
      BY <3>2, <3>4, Middle
    <3>6. /\ lo .. hi \subseteq loc'.good /\ lo - 1 \notin loc'.good /\ hi + 1 \notin loc'.good
      BY <3>2, <3>4
    <3>. QED BY <2>1, <3>5, <3>6 DEF TuneInv, PhaseCentred
  <2>. QED BY <2>2, <2>3
<1>3. CASE Controller
  <2>1. UNCHANGED <<pc, loc>>
    BY <1>3 DEF Controller, ctl_command, ctl_receive, ctl_transmit, ctl_data_over, ctl_update
  <2>. QED BY <2>1 DEF TuneInv, PhaseCentred
<1>4. CASE returned
  <2>1. pc' = "idle" /\ loc' = NoLocals
    BY <1>4 DEF returned, Goto
  <2>. QED BY <2>1 DEF NoLocals, TuneInv, PhaseCentred
<1>5. CASE ~tune_phase /\ ~tune_end /\ ~Controller /\ ~returned
  <2>1. pc \notin {"tune", "tune_end", "return"} /\ pc' # "tune_end" /\ (pc' = "tune" => loc' = loc)
    <3>1. CASE Caller
      BY <3>1 DEF Caller, dwmci_init, tune, set_ios, dwmci_send_cmd, Return, Goto
    <3>2. CASE init_rest \/ setup_bus \/ setup_bus_enable \/ ios_rest
      BY <1>0, <3>2 DEF init_rest, setup_bus, setup_bus_enable, ios_rest, Return, Goto, Again
    <3>3. CASE wait_busy \/ issue \/ wait_cdone
      BY <3>3 DEF wait_busy, issue, Issue, wait_cdone, Return, Goto, Again
    <3>4. CASE read_mask \/ clear_rx \/ drain \/ fill \/ check
      BY <3>4 DEF read_mask, clear_rx, drain, fill, check, Finish, Return, Goto, Again
    <3>. QED BY <1>5, <3>1, <3>2, <3>3, <3>4 DEF Next, Driver
  <2>2. loc'.i = loc.i /\ loc'.smpl_raise = loc.smpl_raise /\ loc'.good = loc.good
    <3>1. CASE Caller
      BY <1>0, <3>1 DEF Caller, dwmci_init, tune, set_ios, dwmci_send_cmd, Return, Types, Locals
    <3>2. CASE init_rest \/ setup_bus \/ setup_bus_enable \/ ios_rest
      BY <1>0, <3>2 DEF init_rest, setup_bus, setup_bus_enable, ios_rest, Return, Types, Locals
    <3>3. CASE wait_busy \/ issue \/ wait_cdone
      BY <1>0, <3>3 DEF wait_busy, issue, Issue, wait_cdone, Return, Types, Locals
    <3>4. CASE read_mask \/ clear_rx \/ drain \/ fill \/ check
      BY <1>0, <3>4 DEF read_mask, clear_rx, drain, fill, check, Finish, Return, Types, Locals
    <3>. QED BY <1>5, <3>1, <3>2, <3>3, <3>4 DEF Next, Driver
  <2>3. loc.i = 0 /\ loc.smpl_raise = -1 /\ loc.good = {}
    BY <2>1 DEF TuneInv
  <2>. QED BY <1>0, <2>1, <2>2, <2>3 DEF TuneInv, PhaseCentred
<1>. QED BY <1>1, <1>2, <1>3, <1>4, <1>5
-----------------------------------------------------------------------------
\* The words of a command.

\* SuccessMeansComplete without the types.
Complete ==
    pc = "return" /\ loc.ret = "0" /\ loc.cmd.data # "none" /\ hist.clean =>
        /\ ~hist.bad
        /\ loc.size = 0
        /\ loc.cmd.data = "read" => hist.buf = [k \in 1 .. loc.cmd.words |-> "new"]
        /\ loc.cmd.data = "write" => hist.stored = loc.cmd.words

\* The numbers that are counted.
LEMMA Numbers ==
    ASSUME TypeOK
    PROVE  /\ Types /\ loc.cmd \in Command
           /\ loc.cmd.data \in {"none", "read", "write"} /\ loc.cmd.words \in Nat /\ loc.size \in Nat
           /\ loc.cmd.data # "none" => loc.cmd.crc
           /\ reg.rintsts \in SUBSET Bits /\ reg.fifo \in Words /\ Len(reg.fifo) \in Nat
           /\ ctl.tr \in Transfer /\ ctl.tr.left \in Nat /\ ctl.tr.xfer \in {"none", "read", "write"}
           /\ hist.buf \in Words /\ Len(hist.buf) \in Nat /\ hist.stored \in Nat
           /\ hist.bad \in BOOLEAN /\ hist.clean \in BOOLEAN
<1>1. Types /\ loc.cmd \in Command /\ loc.size \in Nat
  BY DEF TypeOK, Types, Locals
<1>2. /\ loc.cmd.data \in {"none", "read", "write"} /\ loc.cmd.words \in Nat
      /\ loc.cmd.data # "none" => loc.cmd.crc
  BY <1>1, Commands
<1>3. reg.rintsts \in SUBSET Bits /\ reg.fifo \in Words /\ Len(reg.fifo) \in Nat
  BY <1>1 DEF Types, Registers, Words
<1>4. ctl.tr \in Transfer /\ ctl.tr.left \in Nat /\ ctl.tr.xfer \in {"none", "read", "write"}
  BY <1>1 DEF Types, Device, Transfer
<1>5. /\ hist.buf \in Words /\ Len(hist.buf) \in Nat /\ hist.stored \in Nat
      /\ hist.bad \in BOOLEAN /\ hist.clean \in BOOLEAN
  BY <1>1 DEF Types, History, Words
<1>. QED BY <1>1, <1>2, <1>3, <1>4, <1>5

\* Words of the command that are moved are words of the command.
LEMMA NewWords ==
    ASSUME NEW s \in Seq({"new"})
    PROVE  /\ Len(s) \in Nat
           /\ \A n \in 0 .. Len(s) :
                /\ SubSeq(s, 1, n) \in Seq({"new"}) /\ Len(SubSeq(s, 1, n)) = n
                /\ SubSeq(s, n + 1, Len(s)) \in Seq({"new"}) /\ Len(SubSeq(s, n + 1, Len(s))) = Len(s) - n
           /\ \A t \in Seq({"new"}) : s \o t \in Seq({"new"}) /\ Len(s \o t) = Len(s) + Len(t)
           /\ Append(s, "new") \in Seq({"new"}) /\ Len(Append(s, "new")) = Len(s) + 1
           /\ s # <<>> => Tail(s) \in Seq({"new"}) /\ Len(Tail(s)) = Len(s) - 1 /\ Head(s) = "new"
           /\ s = [k \in 1 .. Len(s) |-> "new"]
<1>1. ASSUME NEW n \in 0 .. Len(s)
      PROVE  /\ SubSeq(s, 1, n) \in Seq({"new"}) /\ Len(SubSeq(s, 1, n)) = n
             /\ SubSeq(s, n + 1, Len(s)) \in Seq({"new"}) /\ Len(SubSeq(s, n + 1, Len(s))) = Len(s) - n
  OBVIOUS
<1>2. /\ \A t \in Seq({"new"}) : s \o t \in Seq({"new"}) /\ Len(s \o t) = Len(s) + Len(t)
      /\ Append(s, "new") \in Seq({"new"}) /\ Len(Append(s, "new")) = Len(s) + 1
  OBVIOUS
<1>3. s # <<>> => Tail(s) \in Seq({"new"}) /\ Len(Tail(s)) = Len(s) - 1 /\ Head(s) = "new"
  OBVIOUS
<1>4. s = [k \in 1 .. Len(s) |-> "new"]
  <2>1. s \in [1 .. Len(s) -> {"new"}]
    OBVIOUS
  <2>2. \A k \in 1 .. Len(s) : s[k] = "new"
    BY <2>1
  <2>. QED BY ONLY <2>1, <2>2
<1>5. Len(s) \in Nat
  OBVIOUS
<1>. QED BY <1>1, <1>2, <1>3, <1>4, <1>5

\* A step to where no data are moved, and no data command has succeeded.
LEMMA NoDataNext ==
    ASSUME pc' \notin Moving \cup {"cdone", "issue"},
           pc' = "return" => loc'.ret # "0" \/ loc'.cmd.data = "none"
    PROVE  DataInv' /\ Complete'
BY DEF DataInv, Complete, Moving

\* A step that returns an error.
LEMMA ErrorData ==
    ASSUME Types, NEW r \in Results \ {"0"}, Return(r)
    PROVE  DataInv' /\ Complete'
BY ReturnTypes, NoDataNext DEF Moving

\* A controller with nothing to do has nothing but the clock to update.
LEMMA QuietController ==
    ASSUME Types, Controller, ~ctl.tr.active, ctl.tr.xfer = "none"
    PROVE  UNCHANGED <<pc, polls, loc, host, reg, hist>> /\ ctl'.tr = ctl.tr
<1>1. ctl_update
  BY DEF Controller, ctl_command, ctl_receive, ctl_transmit, ctl_data_over
<1>. QED BY <1>1 DEF ctl_update, Types, Device

\* The controller executes a command that waited for it.
LEMMA CommandData ==
    ASSUME TypeOK, LocalInv, Waiting, loc.cmd.data # "none", ctl_command
    PROVE  Failed' \/ Accounted'
<1>0. /\ Types /\ pc = "cdone" /\ UNCHANGED <<pc, polls, loc, host, hist>>
  BY Numbers DEF ctl_command, Waiting
<1>1. ctl.tr.cmd.data = loc.cmd.data /\ ctl.tr.cmd.words = loc.cmd.words
  <2>1. loc.cmd \in [data : {"none", "read", "write"}, words : Nat, crc : BOOLEAN,
                     r136busy : BOOLEAN, stop : BOOLEAN]
    BY Numbers, Commands
  <2>. QED BY <2>1 DEF Waiting, Sent
<1>2. PICK fault \in {{}, {"RTO"}, {"RE"}, {"RCRC"}} :
        LET moves == loc.cmd.data # "none" /\ fault \in {{}, {"RCRC"}} IN
         /\ reg' = Raised({"CDONE"} \cup fault \cup (IF moves /\ loc.cmd.data = "write" THEN {"TXDR"} ELSE {}))
         /\ ctl' = [ctl EXCEPT !.started = TRUE,
                      !.tr = [Quiet EXCEPT !.xfer = IF moves THEN loc.cmd.data ELSE "none",
                                           !.left = IF moves THEN loc.cmd.words ELSE 0]]
  BY <1>1 DEF ctl_command
<1>3. ~ctl'.tr.active
  BY <1>0, <1>2 DEF Types, Device, Quiet
<1>4. fault \subseteq reg'.rintsts
  BY <1>0, <1>2 DEF Raised, Types, Registers
<1>5. CASE fault # {}
  <2>1. reg'.rintsts \cap {"RTO", "RE", "RCRC"} # {}
    BY <1>4, <1>5
  <2>. QED BY <1>0, <1>3, <2>1 DEF Failed
<1>6. CASE fault = {}
  <2>1. /\ reg' = Raised({"CDONE"} \cup (IF loc.cmd.data = "write" THEN {"TXDR"} ELSE {}))
        /\ ctl' = [ctl EXCEPT !.started = TRUE, !.tr = [Quiet EXCEPT !.xfer = loc.cmd.data, !.left = loc.cmd.words]]
    BY <1>2, <1>6
  <2>2. reg'.fifo = <<>> /\ "DTO" \notin reg'.rintsts
    BY <1>0, <2>1 DEF Raised, Types, Registers, Waiting
  <2>3. ctl'.tr.xfer = loc.cmd.data /\ ctl'.tr.left = loc.cmd.words
    BY <1>0, <2>1 DEF Types, Device, Quiet
  <2>4. /\ Len(reg'.fifo) + loc.cmd.words = loc.cmd.words /\ Len(hist.buf) + loc.cmd.words = loc.cmd.words
        /\ hist.stored + loc.cmd.words = loc.cmd.words /\ ~hist.bad
    BY <2>2, Numbers DEF Waiting
  <2>5. reg'.fifo \in Seq({"new"}) /\ hist.buf \in Seq({"new"})
    BY <2>2 DEF Waiting
  <2>6. Todo' = loc.cmd.words
    BY <1>0 DEF Todo
  <2>. QED BY <1>0, <1>3, <2>2, <2>3, <2>4, <2>5, <2>6 DEF Accounted
<1>. QED BY <1>5, <1>6

\* The card sends a word of the command.
LEMMA ReceiveData ==
    ASSUME TypeOK, Accounted, ctl_receive
    PROVE  Accounted'
<1>0. /\ Types /\ UNCHANGED <<pc, polls, loc, host, hist>> /\ ctl.tr.left > 0
      /\ loc.cmd.data = "read" /\ ctl.tr.xfer = "read" /\ ~hist.bad /\ "DTO" \notin reg.rintsts
  BY Numbers DEF ctl_receive, Accounted
<1>1. reg'.fifo = Append(reg.fifo, "new") /\ "DTO" \notin reg'.rintsts
  BY <1>0 DEF ctl_receive, Raised, Types, Registers
<1>2. /\ ctl'.tr.left = ctl.tr.left - 1 /\ ctl'.tr.xfer = ctl.tr.xfer /\ ctl'.tr.active = ctl.tr.active
  BY <1>0 DEF ctl_receive, Types, Device, Transfer
<1>3. reg.fifo \in Seq({"new"}) /\ hist.buf \in Seq({"new"}) /\ ~ctl.tr.active
  BY DEF Accounted
<1>4. reg'.fifo \in Seq({"new"}) /\ Len(reg'.fifo) = Len(reg.fifo) + 1
  BY <1>1, <1>3, NewWords
<1>5. Len(hist.buf) + Todo = loc.cmd.words /\ Len(reg.fifo) + ctl.tr.left = Todo /\ Todo' = Todo
  BY <1>0 DEF Accounted, Todo
<1>6. Len(reg'.fifo) + ctl'.tr.left = Todo
  <2>1. PICK a \in Nat, b \in Nat : a = Len(reg.fifo) /\ b = ctl.tr.left
    BY Numbers
  <2>2. Len(reg'.fifo) = a + 1 /\ ctl'.tr.left = b - 1 /\ Todo = a + b
    BY <1>2, <1>4, <1>5, <2>1
  <2>3. (a + 1) + (b - 1) = a + b
    OBVIOUS
  <2>. QED BY <2>2, <2>3
<1>. QED BY <1>0, <1>1, <1>2, <1>3, <1>4, <1>5, <1>6 DEF Accounted

\* The card takes a word of the command.
LEMMA TransmitData ==
    ASSUME TypeOK, Accounted, ctl_transmit
    PROVE  Accounted'
<1>0. /\ Types /\ UNCHANGED <<pc, polls, loc, host>> /\ ctl.tr.left > 0 /\ reg.fifo # <<>>
      /\ loc.cmd.data = "write" /\ ctl.tr.xfer = "write" /\ ~hist.bad /\ "DTO" \notin reg.rintsts
  BY Numbers DEF ctl_transmit, Accounted
<1>1. reg'.fifo = Tail(reg.fifo) /\ "DTO" \notin reg'.rintsts
  BY <1>0 DEF ctl_transmit, Raised, Types, Registers
<1>2. /\ ctl'.tr.left = ctl.tr.left - 1 /\ ctl'.tr.xfer = ctl.tr.xfer /\ ctl'.tr.active = ctl.tr.active
  BY <1>0 DEF ctl_transmit, Types, Device, Transfer
<1>3. reg.fifo \in Seq({"new"}) /\ hist.buf \in Seq({"new"}) /\ ~ctl.tr.active
  BY DEF Accounted
<1>4. reg'.fifo \in Seq({"new"}) /\ Len(reg'.fifo) = Len(reg.fifo) - 1 /\ Head(reg.fifo) = "new"
  BY <1>0, <1>1, <1>3, NewWords
<1>5. hist'.stored = hist.stored + 1 /\ hist'.buf = hist.buf /\ hist'.bad = hist.bad
  BY <1>0, <1>4 DEF ctl_transmit, Types, History
<1>6. hist.stored + ctl.tr.left = loc.cmd.words /\ Len(reg.fifo) + Todo = ctl.tr.left /\ Todo' = Todo
  BY <1>0 DEF Accounted, Todo
<1>7. Todo \in Nat
  BY Numbers DEF Todo
<1>8. hist'.stored + ctl'.tr.left = loc.cmd.words /\ Len(reg'.fifo) + Todo = ctl'.tr.left
  <2>1. PICK a \in Nat, b \in Nat, n \in Nat, t \in Nat :
          a = Len(reg.fifo) /\ b = ctl.tr.left /\ n = hist.stored /\ t = Todo
    BY <1>7, Numbers
  <2>2. Len(reg'.fifo) = a - 1 /\ ctl'.tr.left = b - 1 /\ hist'.stored = n + 1
    BY <1>2, <1>4, <1>5, <2>1
  <2>3. a + t = b /\ loc.cmd.words = n + b
    BY <1>6, <2>1
  <2>4. (a - 1) + t = b - 1 /\ (n + 1) + (b - 1) = n + b
    BY <2>3
  <2>. QED BY <2>1, <2>2, <2>3, <2>4
<1>. QED BY <1>0, <1>1, <1>2, <1>3, <1>4, <1>5, <1>6, <1>8 DEF Accounted

\* The transfer ends.
LEMMA OverData ==
    ASSUME TypeOK, Accounted, ctl_data_over
    PROVE  Accounted'
<1>0. /\ Types /\ UNCHANGED <<pc, polls, loc, host>> /\ ~hist.bad
  BY Numbers DEF ctl_data_over, Accounted
<1>1. ctl'.tr.xfer = "none" /\ ctl'.tr.left = 0 /\ ctl'.tr.active = ctl.tr.active
  BY <1>0 DEF ctl_data_over, Types, Device, Transfer
<1>2. Todo' = Todo
  BY <1>0 DEF Todo
<1>3. CASE ctl.tr.left = 0 /\ reg' = Raised({"DTO"}) /\ UNCHANGED hist
  <2>1. reg'.fifo = reg.fifo
    BY <1>0, <1>3 DEF Raised, Types, Registers
  <2>. QED BY <1>0, <1>1, <1>2, <1>3, <2>1 DEF Accounted
<1>4. CASE reg' = Raised({"DTO", "DATA_ERR"}) /\ hist' = [hist EXCEPT !.bad = TRUE]
  <2>1. reg'.fifo = reg.fifo /\ "DATA_ERR" \in reg'.rintsts
    BY <1>0, <1>4 DEF Raised, Types, Registers
  <2>2. hist'.bad /\ hist'.buf = hist.buf
    BY <1>0, <1>4 DEF Types, History
  <2>. QED BY <1>0, <1>1, <1>2, <2>1, <2>2 DEF Accounted
<1>. QED BY <1>3, <1>4 DEF ctl_data_over

\* Where a data command that was begun cleanly is.
LEMMA Phase ==
    ASSUME DataInv, pc \in Moving \cup {"cdone"}, loc.cmd.data # "none", hist.clean
    PROVE  /\ Waiting \/ Failed \/ (Accounted /\ LastRound)
           /\ pc \in Moving => Accounted /\ LastRound
BY DEF DataInv, Waiting, Failed, Moving

\* The controller and the words.
LEMMA ControllerData ==
    ASSUME TypeOK, LocalInv, FlagInv, DataInv, Complete, Controller
    PROVE  DataInv' /\ Complete'
<1>0. Types /\ UNCHANGED <<pc, polls, loc, host>> /\ hist'.clean = hist.clean
  <2>1. Types /\ UNCHANGED <<pc, polls, loc, host>>
    BY Numbers DEF Controller, ctl_command, ctl_receive, ctl_transmit, ctl_data_over, ctl_update
  <2>2. hist'.clean = hist.clean
    BY <2>1 DEF Controller, ctl_command, ctl_receive, ctl_transmit, ctl_data_over, ctl_update, Types, History
  <2>. QED BY <2>1, <2>2
<1>1. CASE ~ctl.tr.active /\ ctl.tr.xfer = "none"
  <2>1. UNCHANGED <<pc, polls, loc, host, reg, hist>> /\ ctl'.tr = ctl.tr
    BY <1>0, <1>1, QuietController
  <2>. QED BY <2>1 DEF DataInv, Complete, Waiting, Failed, Accounted, LastRound, Todo
<1>2. CASE ~(~ctl.tr.active /\ ctl.tr.xfer = "none")
  <2>1. ~(pc = "issue" /\ hist.clean)
    BY <1>2 DEF FlagInv, DataInv
  <2>2. ~(pc = "return" /\ loc.ret = "0" /\ loc.cmd.data # "none" /\ hist.clean)
    BY <1>2 DEF DataInv
  <2>3. ASSUME pc \in Moving \cup {"cdone"}, loc.cmd.data # "none", hist.clean
        PROVE  Waiting' \/ Failed' \/ (Accounted' /\ LastRound')
    <3>1. CASE Waiting
      <4>1. ctl_command \/ ctl_update
        BY <3>1 DEF Waiting, Controller, ctl_receive, ctl_transmit, ctl_data_over
      <4>2. CASE ctl_command
        <5>1. LastRound'
          BY <1>0, <3>1 DEF Waiting, LastRound, Moving
        <5>. QED BY <2>3, <3>1, <4>2, <5>1, CommandData
      <4>3. CASE ctl_update
        <5>1. UNCHANGED <<pc, polls, loc, host, reg, hist>> /\ ctl'.tr = ctl.tr
          BY <1>0, <4>3 DEF ctl_update, Types, Device
        <5>. QED BY <3>1, <5>1 DEF Waiting
      <4>. QED BY <4>1, <4>2, <4>3
    <3>2. CASE Failed
      <4>1. ~ctl_command
        BY <3>2 DEF Failed, ctl_command
      <4>2. CASE ctl_receive \/ ctl_transmit
        <5>1. ctl'.tr.active = ctl.tr.active
          BY <1>0, <4>2 DEF ctl_receive, ctl_transmit, Types, Device, Transfer
        <5>2. reg.rintsts \subseteq reg'.rintsts
          <6>1. \E b : reg'.rintsts = reg.rintsts \cup b
            <7>1. CASE ctl_receive
              BY <1>0, <7>1 DEF ctl_receive, Raised, Types, Registers
            <7>2. CASE ctl_transmit
              BY <1>0, <7>2 DEF ctl_transmit, Raised, Types, Registers
            <7>. QED BY <4>2, <7>1, <7>2
          <6>. QED BY <6>1
        <5>. QED BY <1>0, <3>2, <5>1, <5>2 DEF Failed
      <4>3. CASE ctl_data_over
        <5>1. ctl'.tr.active = ctl.tr.active
          BY <1>0, <4>3 DEF ctl_data_over, Types, Device, Transfer
        <5>2. reg.rintsts \subseteq reg'.rintsts
          BY <1>0, <4>3 DEF ctl_data_over, Raised, Types, Registers
        <5>. QED BY <1>0, <3>2, <5>1, <5>2 DEF Failed
      <4>4. CASE ctl_update
        <5>1. ctl'.tr.active = ctl.tr.active /\ reg' = reg
          BY <1>0, <4>4 DEF ctl_update, Types, Device
        <5>. QED BY <1>0, <3>2, <5>1 DEF Failed
      <4>. QED BY <4>1, <4>2, <4>3, <4>4 DEF Controller
    <3>3. CASE Accounted /\ LastRound
      <4>1. ctl.tr.xfer # "none" /\ ~ctl_command
        BY <1>2, <3>3 DEF Accounted, ctl_command
      <4>2. ctl_receive \/ ctl_transmit \/ ctl_data_over
        BY <4>1 DEF Controller, ctl_update
      <4>3. Accounted'
        BY <3>3, <4>2, ReceiveData, TransmitData, OverData
      <4>4. LastRound'
        BY <1>0, <3>3, <4>1 DEF LastRound
      <4>. QED BY <4>3, <4>4
    <3>. QED BY <2>3, <3>1, <3>2, <3>3, Phase
  <2>. QED BY <1>0, <2>1, <2>2, <2>3 DEF DataInv, Complete
<1>. QED BY <1>1, <1>2

\* RINTSTS is cleared, and the command is written.
LEMMA IssueData ==
    ASSUME TypeOK, LocalInv, FlagInv, DataInv, wait_busy \/ issue
    PROVE  DataInv' /\ Complete'
<1>0. Types
  BY Numbers
<1>1. CASE Return("ETIMEDOUT") \/ Return("-1")
  <2>1. "ETIMEDOUT" \in Results \ {"0"} /\ "-1" \in Results \ {"0"}
    BY DEF Results
  <2>. QED BY <1>0, <1>1, <2>1, ErrorData
<1>2. CASE pc = "busy" /\ Again
  BY <1>2, NoDataNext DEF Again, Moving
<1>3. CASE Writel(Bits) /\ hist' = [hist EXCEPT !.clean = ~ctl.tr.active /\ ctl.tr.xfer = "none"]
           /\ Goto("issue") /\ UNCHANGED <<host, ctl>>
  <2>1. reg'.rintsts = {}
    <3>1. reg'.rintsts = reg.rintsts \ Bits
      BY <1>0, <1>3, WritelTypes DEF Types
    <3>. QED BY <3>1, Numbers
  <2>2. hist'.clean => ctl.tr.xfer = "none"
    BY <1>0, <1>3 DEF Types, History
  <2>. QED BY <1>3, <2>1, <2>2 DEF Goto, DataInv, Complete, Moving
<1>4. CASE pc = "issue" /\ loc.cmd.data = "none" /\ Issue(reg.fifo, hist.clean)
  <2>1. pc' = "cdone" /\ loc' = loc
    BY <1>4 DEF Issue, Goto
  <2>. QED BY <1>4, <2>1 DEF DataInv, Complete, Moving
<1>5. CASE Issue(reg.fifo, FALSE)
  <2>1. pc' = "cdone" /\ ~hist'.clean
    BY <1>5 DEF Issue, Goto, NoHistory
  <2>. QED BY <2>1 DEF DataInv, Complete, Moving
<1>6. CASE pc = "issue" /\ Issue(<<>>, hist.clean)
  <2>1. pc' = "cdone" /\ loc' = loc
    BY <1>6 DEF Issue, Goto
  <2>2. hist'.buf = <<>> /\ hist'.stored = 0 /\ ~hist'.bad /\ hist'.clean = hist.clean
    BY <1>6 DEF Issue, NoHistory
  <2>3. reg'.rintsts = reg.rintsts /\ reg'.fifo = <<>>
    <3>1. reg' = [reg EXCEPT !.fifo = Old(<<>>)]
      BY <1>6 DEF Issue
    <3>2. Old(<<>>) = <<>>
      BY DEF Old
    <3>. QED BY <1>0, <3>1, <3>2 DEF Types, Registers
  <2>4. ctl'.tr.active /\ ctl'.tr.cmd = Sent(loc.cmd) /\ ctl'.tr.xfer = ctl.tr.xfer
    <3>1. /\ ctl' = [ctl EXCEPT !.tr = [ctl.tr EXCEPT !.active = TRUE, !.init = host.need_init, !.cmd = Sent(loc.cmd)]]
      BY <1>0, <1>6 DEF Issue, Types, Device
    <3>2. ctl'.tr = [ctl.tr EXCEPT !.active = TRUE, !.init = host.need_init, !.cmd = Sent(loc.cmd)]
      BY <1>0, <3>1 DEF Types, Device
    <3>3. ctl.tr \in Transfer
      BY Numbers
    <3>. QED BY <3>2, <3>3 DEF Transfer
  <2>5. hist.clean => Waiting'
    BY <1>6, <2>1, <2>2, <2>3, <2>4 DEF DataInv, Waiting
  <2>. QED BY <2>1, <2>2, <2>5 DEF DataInv, Complete, Moving
<1>. QED BY <1>1, <1>2, <1>3, <1>4, <1>5, <1>6 DEF wait_busy, issue

\* The driver learns how the command ended.
LEMMA CdoneData ==
    ASSUME TypeOK, DataInv, wait_cdone
    PROVE  DataInv' /\ Complete'
<1>0. Types /\ UNCHANGED <<host, ctl, hist>> /\ pc = "cdone"
  BY Numbers DEF wait_cdone
<1>1. CASE Return("ETIMEDOUT") \/ Return("EIO")
  <2>1. "ETIMEDOUT" \in Results \ {"0"} /\ "EIO" \in Results \ {"0"}
    BY DEF Results
  <2>. QED BY <1>0, <1>1, <2>1, ErrorData
<1>2. CASE Again /\ UNCHANGED <<loc, reg>>
  <2>1. pc' = pc
    BY <1>2 DEF Again
  <2>. QED BY <1>0, <1>2, <2>1 DEF DataInv, Complete, Waiting, Failed, Accounted, LastRound, Todo, Moving
<1>3. CASE loc.cmd.data = "none" /\ Return("0")
  <2>1. pc' = "return" /\ loc'.cmd = loc.cmd
    BY <1>0, <1>3, ReturnTypes DEF Results
  <2>. QED BY <1>3, <2>1, NoDataNext DEF Moving
<1>4. CASE /\ loc.cmd.data # "none" /\ "CDONE" \in reg.rintsts /\ UNCHANGED reg
           /\ "RTO" \notin reg.rintsts /\ "RE" \notin reg.rintsts /\ (loc.cmd.crc => "RCRC" \notin reg.rintsts)
           /\ Goto("mask") /\ loc' = [loc EXCEPT !.size = loc.cmd.words]
  <2>1. pc' = "mask" /\ loc'.cmd = loc.cmd /\ loc'.size = loc.cmd.words
    BY <1>0, <1>4 DEF Goto, Types, Locals
  <2>2. ASSUME hist.clean PROVE Accounted'
    <3>1. ~Waiting
      BY <1>4 DEF Waiting
    <3>2. ~Failed
      BY <1>4, Numbers DEF Failed
    <3>3. Accounted
      BY <1>0, <1>4, <2>2, <3>1, <3>2, Phase
    <3>4. Todo' = Todo
      BY <1>0, <2>1 DEF Todo
    <3>. QED BY <1>0, <1>4, <2>1, <3>3, <3>4 DEF Accounted
  <2>3. LastRound'
    BY <2>1 DEF LastRound, Moving
  <2>. QED BY <1>0, <1>4, <2>1, <2>2, <2>3 DEF DataInv, Complete, Moving
<1>. QED BY <1>1, <1>2, <1>3, <1>4 DEF wait_cdone

\* An iteration reads RINTSTS, and clears what it has read.
LEMMA MaskData ==
    ASSUME TypeOK, DataInv, read_mask \/ clear_rx
    PROVE  DataInv' /\ Complete'
<1>0. Types /\ UNCHANGED <<host, ctl, hist>> /\ loc.cmd.data \in {"read", "write"} /\ pc \in Moving
  <2>1. Types /\ UNCHANGED <<host, ctl, hist>> /\ pc \in Moving
    BY Numbers DEF read_mask, clear_rx, Moving
  <2>. QED BY <2>1, Numbers DEF DataInv
<1>1. CASE Return("EINVAL")
  <2>1. "EINVAL" \in Results \ {"0"}
    BY DEF Results
  <2>. QED BY <1>0, <1>1, <2>1, ErrorData
<1>2. CASE clear_rx
  <2>1. pc' = "drain" /\ polls' = 0 /\ loc' = loc /\ pc = "clear_rx" /\ loc.cmd.data = "read"
    BY <1>2 DEF clear_rx, Goto, DataInv
  <2>2. reg'.rintsts = reg.rintsts \ {"RXDR", "DTO"} /\ reg'.fifo = reg.fifo
    BY <1>0, <1>2, WritelTypes DEF clear_rx, Types
  <2>3. ASSUME hist.clean PROVE Accounted' /\ LastRound'
    <3>1. Accounted /\ LastRound
      BY <1>0, <2>3, Phase
    <3>2. Todo' = Todo
      BY <2>1 DEF Todo
    <3>3. Accounted'
      BY <1>0, <2>1, <2>2, <3>1, <3>2 DEF Accounted
    <3>4. LastRound'
      BY <1>0, <2>1, <3>1 DEF LastRound, Moving
    <3>. QED BY <3>3, <3>4
  <2>. QED BY <1>0, <2>1, <2>3 DEF DataInv, Complete, Moving
<1>3. CASE read_mask /\ "DATA_ERR" \notin reg.rintsts
  <2>1. /\ loc' = [loc EXCEPT !.mask = reg.rintsts] /\ reg' = reg /\ pc = "mask"
        /\ pc' = CASE loc.size > 0 /\ loc.cmd.data = "read" /\ reg.rintsts \cap {"RXDR", "DTO"} # {} -> "clear_rx"
                   [] loc.size > 0 /\ loc.cmd.data = "write" /\ "TXDR" \in reg.rintsts -> "fill"
                   [] OTHER -> "check"
    BY <1>3 DEF read_mask, Goto
  <2>2. loc'.cmd = loc.cmd /\ loc'.size = loc.size /\ loc'.mask = reg.rintsts
    BY <1>0, <2>1 DEF Types, Locals
  <2>3. /\ pc' \in {"clear_rx", "fill", "check"}
        /\ pc' = "clear_rx" => loc.cmd.data = "read"
        /\ pc' = "fill" => loc.cmd.data = "write"
        /\ pc' = "check" /\ loc.cmd.data = "read" /\ "DTO" \in reg.rintsts => ~(loc.size > 0)
    BY <1>0, <2>1
  <2>4. ASSUME hist.clean PROVE Accounted' /\ LastRound'
    <3>1. Accounted /\ Todo' = Todo
      BY <1>0, <2>1, <2>2, <2>3, <2>4, Phase DEF Todo
    <3>2. Accounted'
      BY <1>0, <2>1, <2>2, <3>1 DEF Accounted
    <3>3. "DTO" \in reg.rintsts => ctl.tr.xfer = "none" /\ ~hist.bad /\ ctl.tr.left = 0
      BY <1>3, <3>1 DEF Accounted
    <3>4. "DTO" \in reg.rintsts /\ loc.cmd.data = "write" => loc.size = 0
      <4>1. "DTO" \in reg.rintsts /\ loc.cmd.data = "write" => Len(reg.fifo) + loc.size = 0
        BY <2>1, <3>1, <3>3 DEF Accounted, Todo
      <4>. QED BY <4>1, Numbers
    <3>5. "DTO" \in reg.rintsts /\ loc.cmd.data = "read" /\ pc' = "check" => loc.size = 0
      BY <2>3, Numbers
    <3>6. LastRound'
      BY <1>0, <2>2, <2>3, <3>3, <3>4, <3>5 DEF LastRound
    <3>. QED BY <3>2, <3>6
  <2>. QED BY <1>0, <2>2, <2>3, <2>4 DEF DataInv, Complete, Moving
<1>. QED BY <1>1, <1>2, <1>3 DEF read_mask, Finish

\* The loop of a read empties the FIFO into the buffer.
LEMMA DrainData ==
    ASSUME TypeOK, DataInv, drain
    PROVE  DataInv' /\ Complete'
<1>0. /\ Types /\ UNCHANGED <<host, ctl>> /\ pc = "drain" /\ pc \in Moving /\ loc.cmd.data = "read"
  BY Numbers DEF drain, DataInv, Moving
<1>1. CASE (loc.size = 0 \/ LastPoll) /\ Goto("check") /\ UNCHANGED <<loc, reg, hist>>
  <2>1. pc' = "check"
    BY <1>1 DEF Goto
  <2>2. ASSUME hist.clean PROVE Accounted' /\ LastRound'
    <3>1. Accounted /\ LastRound /\ Todo' = Todo
      BY <1>0, <1>1, <2>1, <2>2, Phase DEF Todo
    <3>2. Accounted'
      BY <1>0, <1>1, <3>1 DEF Accounted
    <3>3. "DTO" \in loc.mask => loc.size = 0
      BY <1>0, <1>1, <3>1, BoundAssumption DEF LastRound, LastPoll, Moving
    <3>4. LastRound'
      BY <1>0, <1>1, <2>1, <3>1, <3>3 DEF LastRound, Moving
    <3>. QED BY <3>2, <3>4
  <2>. QED BY <1>0, <1>1, <2>1, <2>2 DEF DataInv, Complete, Moving
<1>2. CASE loc.size # 0 /\ Least(loc.size, Len(reg.fifo)) = 0 /\ Again /\ UNCHANGED <<loc, reg, hist>>
  <2>1. pc' = "drain"
    BY <1>0, <1>2 DEF Again
  <2>2. ASSUME hist.clean PROVE Accounted' /\ LastRound'
    <3>1. Accounted /\ LastRound /\ Todo' = Todo
      BY <1>0, <1>2, <2>1, <2>2, Phase DEF Todo
    <3>2. Accounted'
      BY <1>0, <1>2, <3>1 DEF Accounted
    <3>3. "DTO" \notin loc.mask
      <4>1. SUFFICES ASSUME "DTO" \in loc.mask PROVE FALSE
        OBVIOUS
      <4>2. ctl.tr.left = 0 /\ Len(reg.fifo) + ctl.tr.left = loc.size
        BY <1>0, <3>1, <4>1 DEF LastRound, Accounted, Todo
      <4>. QED BY <1>2, <4>2, Numbers DEF Least
    <3>4. LastRound'
      BY <1>2, <3>3 DEF LastRound
    <3>. QED BY <3>2, <3>4
  <2>. QED BY <1>0, <1>2, <2>1, <2>2 DEF DataInv, Complete, Moving
<1>3. ASSUME NEW len, len = Least(loc.size, Len(reg.fifo)), loc.size # 0, len # 0,
             hist' = [hist EXCEPT !.buf = @ \o SubSeq(reg.fifo, 1, len)],
             reg' = [reg EXCEPT !.fifo = SubSeq(@, len + 1, Len(@))],
             loc' = [loc EXCEPT !.size = @ - len],
             Goto("drain")
      PROVE  DataInv' /\ Complete'
  <2>1. pc' = "drain" /\ polls' = 0
    BY <1>3 DEF Goto
  <2>2. loc'.cmd = loc.cmd /\ loc'.size = loc.size - len /\ loc'.mask = loc.mask
    BY <1>0, <1>3 DEF Types, Locals
  <2>3. reg'.fifo = SubSeq(reg.fifo, len + 1, Len(reg.fifo)) /\ reg'.rintsts = reg.rintsts
    BY <1>0, <1>3 DEF Types, Registers
  <2>4. /\ hist'.buf = hist.buf \o SubSeq(reg.fifo, 1, len)
        /\ hist'.clean = hist.clean /\ hist'.bad = hist.bad /\ hist'.stored = hist.stored
    BY <1>0, <1>3 DEF Types, History
  <2>5. len \in 0 .. Len(reg.fifo) /\ len \in Nat
    BY <1>3, Numbers DEF Least
  <2>6. ASSUME hist.clean PROVE Accounted' /\ LastRound'
    <3>1. Accounted /\ LastRound /\ Todo = loc.size /\ Todo' = loc.size - len
      BY <1>0, <2>1, <2>2, <2>6, Phase DEF Todo
    <3>2. reg.fifo \in Seq({"new"}) /\ hist.buf \in Seq({"new"})
      BY <3>1 DEF Accounted
    <3>3. /\ SubSeq(reg.fifo, 1, len) \in Seq({"new"}) /\ Len(SubSeq(reg.fifo, 1, len)) = len
          /\ reg'.fifo \in Seq({"new"}) /\ Len(reg'.fifo) = Len(reg.fifo) - len
      BY <2>3, <2>5, <3>2, NewWords
    <3>4. hist'.buf \in Seq({"new"}) /\ Len(hist'.buf) = Len(hist.buf) + len
      BY <2>4, <3>2, <3>3, NewWords
    <3>5. ~hist.bad => /\ Len(hist.buf) + loc.size = loc.cmd.words
                       /\ Len(reg.fifo) + ctl.tr.left = loc.size
      BY <1>0, <3>1 DEF Accounted
    <3>6. ~hist.bad => /\ Len(hist'.buf) + (loc.size - len) = loc.cmd.words
                       /\ Len(reg'.fifo) + ctl.tr.left = loc.size - len
      <4>1. PICK a \in Nat, b \in Nat, n \in Nat, t \in Nat, w \in Nat :
              a = Len(reg.fifo) /\ b = ctl.tr.left /\ n = Len(hist.buf) /\ t = loc.size /\ w = loc.cmd.words
        BY Numbers
      <4>2. Len(reg'.fifo) = a - len /\ Len(hist'.buf) = n + len
        BY <3>3, <3>4, <4>1
      <4>3. ~hist.bad => n + t = w /\ a + b = t
        BY <3>5, <4>1
      <4>4. n + t = w /\ a + b = t => (n + len) + (t - len) = w /\ (a - len) + b = t - len
        BY <2>5
      <4>. QED BY <4>1, <4>2, <4>3, <4>4
    <3>7. Accounted'
      BY <1>0, <2>2, <2>3, <2>4, <3>1, <3>3, <3>4, <3>6 DEF Accounted
    <3>8. LastRound'
      BY <1>0, <2>1, <2>2, <2>4, <3>1 DEF LastRound, Moving
    <3>. QED BY <3>7, <3>8
  <2>. QED BY <1>0, <2>1, <2>2, <2>4, <2>6 DEF DataInv, Complete, Moving
<1>. QED BY <1>1, <1>2, <1>3 DEF drain

\* The loop of a write fills the FIFO.
LEMMA FillData ==
    ASSUME TypeOK, LocalInv, FifothInv, DataInv, fill
    PROVE  DataInv' /\ Complete'
<1>0. /\ Types /\ UNCHANGED <<host, ctl, hist>> /\ pc = "fill" /\ pc \in Moving /\ loc.cmd.data = "write"
      /\ host.ready
  BY Numbers DEF fill, DataInv, Moving, LocalInv, Sending
<1>1. CASE Writel({"TXDR"}) /\ Goto("check") /\ UNCHANGED loc
  <2>1. pc' = "check"
    BY <1>1 DEF Goto
  <2>2. reg'.rintsts = reg.rintsts \ {"TXDR"} /\ reg'.fifo = reg.fifo
    BY <1>0, <1>1, WritelTypes DEF Types
  <2>3. ASSUME hist.clean PROVE Accounted' /\ LastRound'
    <3>1. Accounted /\ LastRound /\ Todo = loc.size /\ Todo' = Todo
      BY <1>0, <1>1, <2>1, <2>3, Phase DEF Todo
    <3>2. Accounted'
      BY <1>0, <1>1, <2>2, <3>1 DEF Accounted
    <3>3. "DTO" \in loc.mask => loc.size = 0
      <4>1. "DTO" \in loc.mask => Len(reg.fifo) + loc.size = 0
        BY <1>0, <3>1 DEF LastRound, Accounted, Moving
      <4>. QED BY <4>1, Numbers
    <3>4. LastRound'
      BY <1>0, <1>1, <2>1, <3>1, <3>3 DEF LastRound, Moving
    <3>. QED BY <3>2, <3>4
  <2>. QED BY <1>0, <1>1, <2>1, <2>3 DEF DataInv, Complete, Moving
<1>2. CASE Again /\ UNCHANGED <<loc, reg>>
  <2>1. pc' = "fill"
    BY <1>0, <1>2 DEF Again
  <2>2. ASSUME hist.clean PROVE Accounted' /\ LastRound'
    <3>1. Accounted /\ LastRound /\ Todo' = Todo
      BY <1>0, <1>2, <2>1, <2>2, Phase DEF Todo
    <3>2. Accounted'
      BY <1>0, <1>2, <3>1 DEF Accounted
    <3>3. LastRound'
      BY <1>0, <1>2, <2>1, <3>1 DEF LastRound
    <3>. QED BY <3>2, <3>3
  <2>. QED BY <1>0, <1>2, <2>1, <2>2 DEF DataInv, Complete, Moving
<1>3. CASE /\ loc.size # 0 /\ Len(reg.fifo) < DEPTH
           /\ reg' = [reg EXCEPT !.fifo = @ \o [k \in 1 .. Room |-> "new"]]
           /\ loc' = [loc EXCEPT !.size = @ - Room]
           /\ Goto("fill")
  <2>1. pc' = "fill"
    BY <1>3 DEF Goto
  <2>2. PICK r \in Nat : r = Room /\ r <= loc.size
    BY <1>0, <1>3, RoomFits, Numbers
  <2>3. PICK f : /\ f = [k \in 1 .. Room |-> "new"] /\ f \in Seq({"new"}) /\ Len(f) = r
    BY <1>0, <1>3, <2>2, RoomFits
  <2>4. loc'.cmd = loc.cmd /\ loc'.size = loc.size - r /\ loc'.mask = loc.mask
    BY <1>0, <1>3, <2>2 DEF Types, Locals
  <2>5. reg'.fifo = reg.fifo \o f /\ reg'.rintsts = reg.rintsts
    BY <1>0, <1>3, <2>3 DEF Types, Registers
  <2>6. ASSUME hist.clean PROVE Accounted' /\ LastRound'
    <3>1. Accounted /\ LastRound /\ Todo = loc.size /\ Todo' = loc.size - r
      BY <1>0, <2>1, <2>4, <2>6, Phase DEF Todo
    <3>2. reg.fifo \in Seq({"new"})
      BY <3>1 DEF Accounted
    <3>3. reg'.fifo \in Seq({"new"}) /\ Len(reg'.fifo) = Len(reg.fifo) + r
      <4>1. f \in Seq({"new"}) /\ Len(f) = r
        BY <2>3
      <4>2. reg.fifo \o f \in Seq({"new"}) /\ Len(reg.fifo \o f) = Len(reg.fifo) + Len(f)
        BY ONLY <4>1, <3>2, NewWords
      <4>. QED BY <2>5, <4>1, <4>2
    <3>4. ~hist.bad => Len(reg.fifo) + loc.size = ctl.tr.left
      BY <1>0, <3>1 DEF Accounted
    <3>5. ~hist.bad => Len(reg'.fifo) + (loc.size - r) = ctl.tr.left
      <4>1. PICK a \in Nat, t \in Nat : a = Len(reg.fifo) /\ t = loc.size
        BY Numbers
      <4>2. (a + r) + (t - r) = a + t
        OBVIOUS
      <4>. QED BY <3>3, <3>4, <4>1, <4>2
    <3>6. Accounted'
      BY <1>0, <2>4, <2>5, <3>1, <3>3, <3>5 DEF Accounted
    <3>7. LastRound'
      BY <1>0, <2>1, <2>4, <3>1 DEF LastRound
    <3>. QED BY <3>6, <3>7
  <2>. QED BY <1>0, <2>1, <2>4, <2>6 DEF DataInv, Complete, Moving
<1>4. Len(reg.fifo) >= DEPTH \/ Len(reg.fifo) < DEPTH
  BY Numbers, DepthAssumption
<1>. QED BY <1>1, <1>2, <1>3, <1>4 DEF fill

\* The end of an iteration: success is reported only when every word has been moved.
LEMMA CheckData ==
    ASSUME TypeOK, DataInv, check
    PROVE  DataInv' /\ Complete'
<1>0. /\ Types /\ UNCHANGED <<host, ctl, hist>> /\ pc = "check" /\ pc \in Moving
      /\ loc.cmd.data \in {"read", "write"}
  <2>1. Types /\ UNCHANGED <<host, ctl, hist>> /\ pc = "check" /\ pc \in Moving
    BY Numbers DEF check, Moving
  <2>. QED BY <2>1, Numbers DEF DataInv
<1>1. CASE Finish(loc.mask, "ETIMEDOUT")
  <2>1. "ETIMEDOUT" \in Results \ {"0"}
    BY DEF Results
  <2>. QED BY <1>0, <1>1, <2>1, ErrorData DEF Finish
<1>2. CASE /\ "DTO" \notin loc.mask /\ loc' = [loc EXCEPT !.rounds = @ + 1] /\ Goto("mask") /\ UNCHANGED reg
  <2>1. pc' = "mask" /\ loc'.cmd = loc.cmd /\ loc'.size = loc.size
    BY <1>0, <1>2 DEF Goto, Types, Locals
  <2>2. ASSUME hist.clean PROVE Accounted' /\ LastRound'
    <3>1. Accounted /\ Todo' = Todo
      BY <1>0, <2>1, <2>2, Phase DEF Todo
    <3>2. Accounted'
      BY <1>0, <1>2, <2>1, <3>1 DEF Accounted
    <3>3. LastRound'
      BY <2>1 DEF LastRound
    <3>. QED BY <3>2, <3>3
  <2>. QED BY <1>0, <2>1, <2>2 DEF DataInv, Complete, Moving
<1>3. CASE "DTO" \in loc.mask /\ Finish(loc.mask, "0")
  <2>1. pc' = "return" /\ loc'.cmd = loc.cmd /\ loc'.size = loc.size
    BY <1>0, <1>3, ReturnTypes DEF Finish, Results
  <2>2. ASSUME hist.clean
        PROVE  /\ ~hist.bad /\ loc.size = 0 /\ ~ctl.tr.active /\ ctl.tr.xfer = "none"
               /\ loc.cmd.data = "read" => hist.buf = [k \in 1 .. loc.cmd.words |-> "new"]
               /\ loc.cmd.data = "write" => hist.stored = loc.cmd.words
    <3>1. Accounted /\ LastRound
      BY <1>0, <2>2, Phase
    <3>2. ctl.tr.xfer = "none" /\ ~hist.bad /\ loc.size = 0 /\ ~ctl.tr.active /\ ctl.tr.left = 0
      BY <1>0, <1>3, <3>1 DEF LastRound, Accounted
    <3>3. ASSUME loc.cmd.data = "read" PROVE hist.buf = [k \in 1 .. loc.cmd.words |-> "new"]
      <4>1. hist.buf \in Seq({"new"}) /\ Len(hist.buf) + 0 = loc.cmd.words
        BY <1>0, <3>1, <3>2, <3>3 DEF Accounted, Todo
      <4>2. Len(hist.buf) = loc.cmd.words
        BY <4>1, Numbers
      <4>. QED BY <4>1, <4>2, NewWords
    <3>4. ASSUME loc.cmd.data = "write" PROVE hist.stored = loc.cmd.words
      <4>1. hist.stored + 0 = loc.cmd.words
        BY <1>0, <3>1, <3>2, <3>4 DEF Accounted
      <4>. QED BY <4>1, Numbers
    <3>. QED BY <3>2, <3>3, <3>4
  <2>. QED BY <1>0, <2>1, <2>2 DEF DataInv, Complete, Moving
<1>. QED BY <1>1, <1>2, <1>3 DEF check

\* Every word is in one place, and the driver reports success when all are in the last one.
LEMMA DataNext ==
    ASSUME TypeOK, LocalInv, FifothInv, FlagInv, DataInv, Complete, Next
    PROVE  DataInv' /\ Complete'
<1>0. /\ Types /\ loc.then \in {"idle", "init_rest", "ios_rest"}
  BY Numbers DEF Types, Locals
<1>1. CASE Caller
  <2>1. pc' \in {"setup", "busy", "tune"} \/ Return("EIO")
    BY <1>1 DEF Caller, dwmci_init, tune, set_ios, dwmci_send_cmd, Goto
  <2>2. "EIO" \in Results \ {"0"}
    BY DEF Results
  <2>. QED BY <1>0, <2>1, <2>2, ErrorData, NoDataNext DEF Moving
<1>2. CASE Controller
  BY <1>2, ControllerData
<1>3. CASE wait_busy \/ issue \/ wait_cdone \/ read_mask \/ clear_rx
  BY <1>3, IssueData, CdoneData, MaskData
<1>4. CASE drain \/ fill \/ check
  BY <1>4, DrainData, FillData, CheckData
<1>5. CASE returned
  BY <1>5, NoDataNext DEF returned, Goto, Moving
<1>6. CASE init_rest \/ setup_bus \/ setup_bus_enable \/ ios_rest \/ tune_phase \/ tune_end
  <2>1. pc \notin Sending \cup {"return"}
    BY <1>6 DEF init_rest, setup_bus, setup_bus_enable, ios_rest, tune_phase, tune_end, Sending
  <2>2. loc.cmd.data = "none"
    BY <2>1 DEF LocalInv, NoCommand
  <2>3. loc'.cmd = loc.cmd
    BY <1>0, <1>6 DEF init_rest, setup_bus, setup_bus_enable, ios_rest, tune_phase, tune_end, Return, Types, Locals
  <2>4. pc' \in {"return", "upd1", "upd2", "idle", "init_rest", "ios_rest", "tune", "tune_end"}
    BY <1>0, <1>6 DEF init_rest, setup_bus, setup_bus_enable, ios_rest, tune_phase, tune_end, Return, Goto, Again
  <2>. QED BY <2>2, <2>3, <2>4, NoDataNext DEF Moving
<1>. QED BY <1>1, <1>2, <1>3, <1>4, <1>5, <1>6 DEF Next, Driver
-----------------------------------------------------------------------------
\* The results.

\* The host has not been set up, and the controller has nothing to do.
LEMMA InitIInv ==
    ASSUME Init
    PROVE  IInv
<1>1. PICK hz \in BusHz : host = [clock |-> 0, bus_hz |-> hz, need_init |-> FALSE,
                                  fifoth_val |-> -1, ready |-> FALSE]
  BY DEF Init
<1>2. /\ pc = "idle" /\ polls = 0 /\ calls = 0 /\ loc = NoLocals /\ hist = NoHistory
      /\ reg = [rintsts |-> {}, fifo |-> <<>>, fifoth |-> DEPTH - 1, clkena |-> FALSE, clkdiv |-> 0]
      /\ ctl = [tr |-> Quiet, upd |-> FALSE, clk |-> Off, started |-> TRUE, clk_lost |-> FALSE]
  BY DEF Init
<1>3. TypeOK
  <2>1. pc \in PC /\ calls \in 0 .. MaxCalls /\ polls \in 0 .. MaxPolls
    BY <1>2, BoundAssumption DEF PC
  <2>2. loc \in Locals /\ loc.size <= loc.cmd.words /\ hist \in History
    BY <1>2, Empty DEF NoLocals, NoCommand
  <2>3. host \in Host
    BY <1>1, DepthAssumption DEF Host
  <2>4. reg \in Registers /\ Len(reg.fifo) <= DEPTH
    BY <1>2, DepthAssumption DEF Registers, Words
  <2>5. ctl \in Device
    BY <1>2, Empty DEF Device
  <2>. QED BY <2>1, <2>2, <2>3, <2>4, <2>5 DEF TypeOK
<1>4. SuccessMeansComplete /\ FirstCommandInits /\ PhaseCentred
  BY <1>2, <1>3 DEF SuccessMeansComplete, FirstCommandInits, PhaseCentred, Quiet
<1>5. LocalInv /\ FifothInv /\ FlagInv
  BY <1>1, <1>2 DEF LocalInv, FifothInv, FlagInv, Sending, NoLocals, Quiet
<1>6. ClockInv /\ TuneInv /\ DataInv
  BY <1>1, <1>2 DEF ClockInv, TuneInv, DataInv, Moving, NoLocals
<1>. QED BY <1>3, <1>4, <1>5, <1>6 DEF IInv

\* Every step keeps the invariant.
LEMMA NextIInv ==
    ASSUME IInv, [Next]_vars
    PROVE  IInv'
<1>0. TypeOK /\ Complete
  BY DEF IInv, SuccessMeansComplete, Complete
<1>1. CASE Next
  <2>1. TypeOK'
    BY <1>0, <1>1, TypeNext DEF IInv
  <2>2. LocalInv' /\ FifothInv'
    BY <1>0, <1>1, LocalNext, FifothNext DEF IInv
  <2>3. FlagInv' /\ FirstCommandInits'
    BY <1>0, <1>1, FlagNext DEF IInv
  <2>4. ClockInv' /\ TuneInv' /\ PhaseCentred'
    BY <1>0, <1>1, ClockNext, TuneNext DEF IInv
  <2>5. DataInv' /\ Complete'
    BY <1>0, <1>1, DataNext DEF IInv
  <2>6. SuccessMeansComplete'
    BY <2>1, <2>5 DEF SuccessMeansComplete, Complete
  <2>. QED BY <2>2, <2>3, <2>4, <2>5, <2>6 DEF IInv
<1>2. CASE UNCHANGED vars
  <2>1. TypeOK' /\ SuccessMeansComplete' /\ FirstCommandInits' /\ PhaseCentred'
    BY <1>2 DEF IInv, vars, TypeOK, SuccessMeansComplete, FirstCommandInits, PhaseCentred
  <2>2. LocalInv' /\ FifothInv' /\ FlagInv' /\ ClockInv' /\ TuneInv'
    BY <1>2 DEF IInv, vars, LocalInv, FifothInv, FlagInv, ClockInv, TuneInv
  <2>3. DataInv'
    BY <1>2 DEF IInv, vars, DataInv, Waiting, Failed, Accounted, LastRound, Todo
  <2>. QED BY <2>1, <2>2, <2>3 DEF IInv
<1>. QED BY <1>1, <1>2

\* The invariant holds of the driver with whatever controller and card.
THEOREM DwMmcInvariant == Spec => []IInv
BY InitIInv, NextIInv, PTL DEF Spec

\* A data command that dwmci_send_cmd reports as successful has moved each of its words, and
\* only those, and the FIFO never overruns, for every depth of the FIFO and every length.
THEOREM EveryWordMoved == Spec => []SuccessMeansComplete
<1>1. IInv => SuccessMeansComplete
  BY DEF IInv
<1>. QED BY <1>1, DwMmcInvariant, PTL

\* The clock that dwmci_setup_bus records runs, no faster than recorded, unless an update of
\* the clock has timed out.
THEOREM ClockRuns == Spec => []ClockAsRecorded
<1>1. IInv => ClockAsRecorded
  BY DEF IInv, ClockInv, ClockAsRecorded, NoFaster
<1>. QED BY <1>1, DwMmcInvariant, PTL

\* The first command after a reset is sent with the initialisation sequence, and no other.
THEOREM InitSentOnce == Spec => []FirstCommandInits
<1>1. IInv => FirstCommandInits
  BY DEF IInv
<1>. QED BY <1>1, DwMmcInvariant, PTL

\* dwmci_execute_tuning programs the middle of the window, however many phases there are.
THEOREM TuningCentred == Spec => []PhaseCentred
<1>1. IInv => PhaseCentred
  BY DEF IInv
<1>. QED BY <1>1, DwMmcInvariant, PTL
====
