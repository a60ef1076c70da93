-------------------------------- MODULE Dev --------------------------------
(***************************************************************************)
(* Console, uart and clock (kernel/console.c, kernel/uart.c, clockintr and *)
(* devintr of kernel/trap.c, sys_sleep), and the way of a process through  *)
(* usertrap: reads of lines that the interrupt handler edits, writes       *)
(* through the transmit buffer, sleeps, and kill of a process in any of    *)
(* them.                                                                   *)
(*                                                                         *)
(* cons.lock is held by the process at "rhold" or "rdoze", tickslock by    *)
(* the one at "tdoze", uart_tx_lock by tx.owner.  sleep and wakeup are     *)
(* those of module Sched.  The uart is a 16550 with its FIFO on; it is     *)
(* external, as is the PLIC.                                               *)
(***************************************************************************)
EXTENDS Integers, Sequences

CONSTANTS Procs,
          Workloads,        \* bound: [calls: those each process makes, keys: those typed,
                            \* kill: the processes that may be killed,
                            \* n: bytes per read and write, ticks per sleep]
          INPUT_BUF_SIZE, UART_TX_BUF_SIZE,
          UINT              \* number of uint values: 2^32

\* A character, newline, ^D, ^U, ^H.
Keys == {"x", "nl", "D", "U", "H"}

ASSUME DevAssumption ==
  /\ {INPUT_BUF_SIZE, UART_TX_BUF_SIZE, UINT} \subseteq Nat \ {0}
  /\ UINT % INPUT_BUF_SIZE = 0 /\ UINT % UART_TX_BUF_SIZE = 0
  /\ UINT > INPUT_BUF_SIZE /\ UINT > UART_TX_BUF_SIZE
  /\ Procs \cap {"intr", "none"} = {}
  /\ \A l \in Workloads :
       /\ l.n \subseteq 1..UINT - 2 /\ l.keys \subseteq Keys
       /\ \A p \in Procs : l.calls[p] \subseteq {"read", "write", "sleep"}

VARIABLES load,     \* the workload, for good
          cons,     \* [buf, r, w, e]
          uart,     \* [buf, r, w] of the transmit buffer; a byte is known by its writer
          tx,       \* uart_tx_lock: [owner, at: place in uartstart]
          fifo,     \* bytes in the uart's transmit FIFO
          thri,     \* the uart's interrupt "transmitter empty"
          rx,       \* a character waits in the uart
          handler,  \* of the uart's interrupt: "idle", "rx", "start", "complete"
          ticks,
          pc, killed,
          call,     \* [left: bytes or ticks to do, any: some byte was read, ticks0]
          line, ready, \* history: the line being edited; the lines not yet read
          outq,     \* history: bytes accepted from writers and not yet sent
          slept     \* history: ticks since the process called sleep

dev == <<uart, tx, fifo, thri, handler>>
hist == <<line, ready, outq, slept>>
vars == <<load, cons, uart, tx, fifo, thri, rx, handler, ticks, pc, killed, call, line, ready, outq, slept>>

Plus(a, b) == (a + b) % UINT
Minus(a, b) == (a - b) % UINT

NoCall == [left |-> 0, any |-> FALSE, ticks0 |-> 0]

Init == /\ load \in Workloads
        /\ cons = [buf |-> [i \in 0..INPUT_BUF_SIZE - 1 |-> "x"], r |-> 0, w |-> 0, e |-> 0]
        /\ uart = [buf |-> [i \in 0..UART_TX_BUF_SIZE - 1 |-> "none"], r |-> 0, w |-> 0]
        /\ tx = [owner |-> "none", at |-> "check"]
        /\ fifo = 0 /\ thri = FALSE /\ rx = FALSE /\ handler = "idle" /\ ticks = 0
        /\ pc = [p \in Procs |-> "user"] /\ killed = [p \in Procs |-> FALSE]
        /\ call = [p \in Procs |-> NoCall]
        /\ line = <<>> /\ ready = <<>> /\ outq = <<>> /\ slept = [p \in Procs |-> 0]

\* wakeup(chan): the processes asleep at from go on at to.
Woken(from, to) == [p \in Procs |-> IF pc[p] = from THEN to ELSE pc[p]]

ConsFree == \A p \in Procs : pc[p] \notin {"rhold", "rdoze"}
TickFree == \A p \in Procs : pc[p] # "tdoze"
TxFree == tx.owner = "none"

Goto(p, from, to) == pc[p] = from /\ pc' = [pc EXCEPT ![p] = to]

-----------------------------------------------------------------------------
\* usertrap on a system call: a killed process exits, another one starts the call.
\* sys_sleep's ticks0 is read here, not with its first test: a tick may come between.
Call(p) ==
  /\ ~killed[p]
  /\ \E c \in load.calls[p], n \in load.n :
       /\ Goto(p, "user", c)
       /\ call' = [call EXCEPT ![p] = [left |-> n, any |-> FALSE, ticks0 |-> IF c = "sleep" THEN ticks ELSE 0]]
  /\ UNCHANGED <<load, dev, cons, rx, ticks, killed, hist>>

\* The kernel is left, and the call forgotten.
Left(p) == /\ pc' = [pc EXCEPT ![p] = "user"] /\ call' = [call EXCEPT ![p] = NoCall]
           /\ slept' = [slept EXCEPT ![p] = 0]

\* usertrap after a call, an interrupt or before a call: a killed process exits
\* (and a new one takes its place).
Exit(p) ==
  /\ killed[p] /\ pc[p] \in {"user", "ret"}
  /\ killed' = [killed EXCEPT ![p] = FALSE] /\ Left(p)
  /\ UNCHANGED <<load, dev, cons, rx, ticks, line, ready, outq>>

Return(p) ==
  /\ ~killed[p] /\ pc[p] = "ret" /\ Left(p)
  /\ UNCHANGED <<load, dev, cons, rx, ticks, killed, line, ready, outq>>

\* kill wakes its victim; one at a time (a bound).
Kill(p) ==
  /\ p \in load.kill /\ \A q \in Procs : ~killed[q]
  /\ killed' = [killed EXCEPT ![p] = TRUE]
  /\ pc' = [pc EXCEPT ![p] = CASE @ = "rasleep" -> "read" [] @ = "wasleep" -> "put"
                               [] @ = "tasleep" -> "sleep" [] OTHER -> @]
  /\ UNCHANGED <<load, dev, cons, rx, ticks, call, hist>>

-----------------------------------------------------------------------------
\* consoleread
ReadLock(p) ==
  /\ ConsFree /\ Goto(p, "read", "rhold")
  /\ UNCHANGED <<load, dev, cons, rx, ticks, killed, call, hist>>

\* Faulty: a killed process goes back to sleep.
ReadEmptyDeaf(p) ==
  /\ cons.r = cons.w /\ Goto(p, "rhold", "rdoze")
  /\ UNCHANGED <<load, dev, cons, rx, ticks, killed, call, hist>>

\* Nothing to read: -1 for a killed process, sleep for another.
ReadEmpty(p) ==
  /\ cons.r = cons.w /\ Goto(p, "rhold", IF killed[p] THEN "ret" ELSE "rdoze")
  /\ UNCHANGED <<load, dev, cons, rx, ticks, killed, call, hist>>

ReadDoze(p) ==
  /\ Goto(p, "rdoze", "rasleep")
  /\ UNCHANGED <<load, dev, cons, rx, ticks, killed, call, hist>>

\* One byte: ^D ends the read and stays if it is not the first; a byte that
\* cannot be copied to the user is gone.  A byte that was read is forgotten.
ReadChar(p) ==
  LET c == cons.buf[cons.r % INPUT_BUF_SIZE]
      putback == c = "D" /\ call[p].any
  IN
  /\ cons.r # cons.w
  /\ \E copied \in BOOLEAN :
       Goto(p, "rhold", IF c \in {"D", "nl"} \/ ~copied \/ call[p].left = 1 THEN "ret" ELSE "rhold")
  /\ cons' = IF putback THEN cons
             ELSE [cons EXCEPT !.r = Plus(@, 1), !.buf[cons.r % INPUT_BUF_SIZE] = "x"]
  /\ ready' = IF putback THEN ready ELSE Tail(ready)
  /\ call' = [call EXCEPT ![p].left = @ - 1, ![p].any = TRUE]
  /\ UNCHANGED <<load, dev, rx, ticks, killed, line, outq, slept>>

-----------------------------------------------------------------------------
\* consolewrite: the next byte is copied from the user; a bad address ends the write.
CopyIn(p) ==
  /\ \E to \in {"put", "ret"} : Goto(p, "write", to)
  /\ UNCHANGED <<load, dev, cons, rx, ticks, killed, call, hist>>

\* Faulty: one byte too many fits.
FullLate == uart.w = Plus(uart.r, UART_TX_BUF_SIZE + 1)

\* uartputc
Full == uart.w = Plus(uart.r, UART_TX_BUF_SIZE)

PutSleep(p) ==
  /\ TxFree /\ Full /\ Goto(p, "put", "wasleep")
  /\ UNCHANGED <<load, dev, cons, rx, ticks, killed, call, hist>>

Put(p) ==
  /\ TxFree /\ ~Full /\ Goto(p, "put", "start")
  /\ uart' = [uart EXCEPT !.buf[uart.w % UART_TX_BUF_SIZE] = p, !.w = Plus(@, 1)]
  /\ outq' = Append(outq, p)
  /\ tx' = [owner |-> p, at |-> "check"]
  /\ UNCHANGED <<load, cons, fifo, thri, rx, handler, ticks, killed, call, line, ready, slept>>

\* uartstart, run by the holder of uart_tx_lock.  With nothing to send it reads ISR,
\* which ends the interrupt unless a received character is what ISR reports.
StartEnd ==
  /\ ~TxFree /\ tx.at = "check" /\ (uart.r = uart.w \/ fifo # 0)
  /\ thri' = IF uart.r = uart.w THEN thri /\ rx ELSE thri
  /\ tx' = [tx EXCEPT !.owner = "none"]
  /\ IF tx.owner = "intr" THEN handler' = "complete" /\ UNCHANGED <<pc, call>>
     ELSE /\ call' = [call EXCEPT ![tx.owner].left = @ - 1]
          /\ Goto(tx.owner, "start", IF call[tx.owner].left = 1 THEN "ret" ELSE "write")
          /\ UNCHANGED handler
  /\ UNCHANGED <<load, cons, uart, fifo, rx, ticks, killed, hist>>

\* LSR_TX_IDLE was seen: the byte leaves the buffer and the writers are woken ...
StartTake ==
  /\ ~TxFree /\ tx.at = "check" /\ uart.r # uart.w /\ fifo = 0
  /\ uart' = [uart EXCEPT !.r = Plus(@, 1)]
  /\ pc' = Woken("wasleep", "put")
  /\ tx' = [tx EXCEPT !.at = "send"]
  /\ UNCHANGED <<load, cons, fifo, thri, rx, handler, ticks, killed, call, hist>>

\* ... and it is written to THR, where an echo may have got in between; the buffer's
\* copy is forgotten.
StartSend ==
  /\ ~TxFree /\ tx.at = "send"
  /\ fifo' = fifo + 1 /\ thri' = FALSE
  /\ outq' = Tail(outq)
  /\ tx' = [tx EXCEPT !.at = "check"]
  /\ uart' = [uart EXCEPT !.buf[Minus(uart.r, 1) % UART_TX_BUF_SIZE] = "none"]
  /\ UNCHANGED <<load, cons, rx, handler, ticks, pc, killed, call, line, ready, slept>>

-----------------------------------------------------------------------------
\* devintr: the PLIC gives the uart's interrupt to one hart, until complete.
Claim ==
  /\ handler = "idle" /\ (rx \/ thri) /\ handler' = "rx"
  /\ UNCHANGED <<load, cons, uart, tx, fifo, thri, rx, ticks, pc, killed, call, hist>>

\* Faulty: the room is what is left beside the line being edited.
HasRoomBeside == Minus(cons.e, cons.w) < INPUT_BUF_SIZE

\* consoleintr
HasRoom == Minus(cons.e, cons.r) < INPUT_BUF_SIZE

Commits(c, e) == c \in {"nl", "D"} \/ Minus(e, cons.r) = INPUT_BUF_SIZE

\* The end of the line after ^U: nothing before cons.w, nothing with a newline.
KilledTo ==
  LET from(i) == \A j \in 0..i - 1 : cons.buf[Minus(cons.e, j + 1) % INPUT_BUF_SIZE] # "nl"
      n == CHOOSE i \in 0..Minus(cons.e, cons.w) :
             from(i) /\ (i = Minus(cons.e, cons.w) \/ ~from(i + 1))
  IN  Minus(cons.e, n)

\* What a key does to the line being edited and the lines to be read: history.
Typed(c) ==
  LET l == Append(line, c)
      n == Len(ready) + Len(l)
  IN  CASE c = "U" -> line' = <<>> /\ ready' = ready
        [] c = "H" -> line' = (IF line = <<>> THEN line ELSE SubSeq(line, 1, Len(line) - 1)) /\ ready' = ready
        [] c \notin {"U", "H"} /\ n > INPUT_BUF_SIZE -> UNCHANGED <<line, ready>>
        [] OTHER -> IF c # "x" \/ n = INPUT_BUF_SIZE THEN line' = <<>> /\ ready' = ready \o l
                    ELSE line' = l /\ ready' = ready

\* uartputc_sync of an echo waits for an idle uart; of an erased character's three
\* bytes it is the last.
Echoed(echo) == /\ echo => fifo = 0
                /\ fifo' = IF echo THEN 1 ELSE fifo
                /\ thri' = (thri /\ ~echo)

\* uartgetc reads a key and consoleintr handles it.
Consoleintr(c) ==
  LET e1 == Plus(cons.e, 1)
      keep == c \notin {"U", "H"} /\ HasRoom
      commit == keep /\ Commits(c, e1)
      erase == IF c = "U" THEN KilledTo ELSE IF cons.e # cons.w THEN Minus(cons.e, 1) ELSE cons.e
      echo == keep \/ (c \in {"U", "H"} /\ erase # cons.e)
  IN
  /\ handler = "rx" /\ rx /\ ConsFree
  /\ rx' = FALSE
  /\ cons' = IF keep THEN [cons EXCEPT !.buf[cons.e % INPUT_BUF_SIZE] = c, !.e = e1,
                                       !.w = IF commit THEN e1 ELSE @]
             ELSE IF c \in {"U", "H"} THEN [cons EXCEPT !.e = erase] ELSE cons
  /\ pc' = IF commit THEN Woken("rasleep", "read") ELSE pc
  /\ Echoed(echo) /\ Typed(c)
  /\ UNCHANGED <<load, uart, tx, handler, ticks, killed, call, outq, slept>>

\* Faulty: the handler takes input only.
IntrStartNot ==
  /\ handler = "rx" /\ ~rx /\ TxFree /\ handler' = "complete"
  /\ UNCHANGED <<load, cons, uart, tx, fifo, thri, rx, ticks, pc, killed, call, hist>>

\* uartintr goes on to uartstart when there is no more input.
IntrStart ==
  /\ handler = "rx" /\ ~rx /\ TxFree /\ handler' = "start" /\ tx' = [owner |-> "intr", at |-> "check"]
  /\ UNCHANGED <<load, cons, uart, fifo, thri, rx, ticks, pc, killed, call, hist>>

Complete ==
  /\ handler = "complete" /\ handler' = "idle"
  /\ UNCHANGED <<load, cons, uart, tx, fifo, thri, rx, ticks, pc, killed, call, hist>>

\* The uart: a byte goes out; a key arrives, slower than the handler's loop.
Transmit ==
  /\ fifo > 0 /\ fifo' = fifo - 1 /\ thri' = (thri \/ fifo = 1)
  /\ UNCHANGED <<load, cons, uart, tx, rx, handler, ticks, pc, killed, call, hist>>

Key ==
  /\ ~rx /\ handler # "rx" /\ load.keys # {} /\ rx' = TRUE
  /\ UNCHANGED <<load, cons, uart, tx, fifo, thri, handler, ticks, pc, killed, call, hist>>

-----------------------------------------------------------------------------
Sleeping(p) == pc[p] \in {"sleep", "tdoze", "tasleep"}

\* clockintr, as long as somebody sleeps (a bound).  No sleeper is kept from running
\* for a whole turn of ticks.
Clockintr ==
  /\ TickFree /\ (\E p \in Procs : Sleeping(p)) /\ \A p \in Procs : Sleeping(p) => slept[p] < UINT - 1
  /\ ticks' = Plus(ticks, 1) /\ pc' = Woken("tasleep", "sleep")
  /\ slept' = [p \in Procs |-> IF Sleeping(p) THEN slept[p] + 1 ELSE slept[p]]
  /\ UNCHANGED <<load, dev, cons, rx, killed, call, line, ready, outq>>

\* Faulty: compares with the tick at which the sleep is to end.
WaitingUntil(p) == ticks < Plus(call[p].ticks0, call[p].left)

\* sys_sleep
Waiting(p) == Minus(ticks, call[p].ticks0) < call[p].left

SleepCheck(p) ==
  /\ TickFree
  /\ Goto(p, "sleep", IF ~Waiting(p) \/ killed[p] THEN "ret" ELSE "tdoze")
  /\ UNCHANGED <<load, dev, cons, rx, ticks, killed, call, hist>>

SleepDoze(p) ==
  /\ Goto(p, "tdoze", "tasleep")
  /\ UNCHANGED <<load, dev, cons, rx, ticks, killed, call, hist>>

-----------------------------------------------------------------------------
Step(p) == \/ Exit(p) \/ Return(p)
           \/ ReadLock(p) \/ ReadEmpty(p) \/ ReadDoze(p) \/ ReadChar(p)
           \/ CopyIn(p) \/ PutSleep(p) \/ Put(p)
           \/ SleepCheck(p) \/ SleepDoze(p)

Start == StartEnd \/ StartTake \/ StartSend
Intr == Claim \/ IntrStart \/ Complete \/ \E c \in load.keys : Consoleintr(c)

Next == \/ \E p \in Procs : Step(p) \/ Call(p) \/ Kill(p)
        \/ Start \/ Intr \/ Transmit \/ Key \/ Clockintr

Spec == Init /\ [][Next]_vars

\* Processes are scheduled (module Sched), spinlocks are given to those who spin for
\* them, the uart sends what it has, and the clock goes on.
FairSpec == /\ Spec /\ \A p \in Procs : SF_vars(Step(p))
            /\ SF_vars(Start \/ Intr) /\ WF_vars(Transmit) /\ SF_vars(Clockintr)
-----------------------------------------------------------------------------
TypeOK ==
  /\ fifo \in 0..2 /\ rx \in BOOLEAN /\ thri \in BOOLEAN /\ ticks \in 0..UINT - 1
  /\ tx \in [owner: Procs \cup {"intr", "none"}, at: {"check", "send"}]
  /\ handler \in {"idle", "rx", "start", "complete"}

\* The bytes of a ring from index a up to b.
Slots(buf, a, b, size) == [i \in 1..Minus(b, a) |-> buf[Plus(a, i - 1) % size]]

\* The input buffer holds the lines that were typed, edited and committed and the
\* line being edited, whatever the wrap of r, w and e, the reads of several processes
\* and ^D put back: nothing unread is overwritten (console.c:159), a buffer full
\* of keys always has something to read, and no reader sleeps while there is input.
InputIntact ==
  /\ TypeOK
  /\ \A p \in Procs : pc[p] = "rasleep" => cons.r = cons.w
  /\ Slots(cons.buf, cons.r, cons.w, INPUT_BUF_SIZE) = ready
  /\ Slots(cons.buf, cons.w, cons.e, INPUT_BUF_SIZE) = line
  /\ Minus(cons.e, cons.r) = INPUT_BUF_SIZE => line = <<>>

\* Bytes are sent in the order in which uartputc accepted them, none is overwritten,
\* and the FIFO never gets more than the byte of uartstart and one echo, which is
\* sent without uart_tx_lock.
OutputIntact ==
  /\ outq = (IF ~TxFree /\ tx.at = "send" THEN <<uart.buf[Minus(uart.r, 1) % UART_TX_BUF_SIZE]>> ELSE <<>>)
             \o Slots(uart.buf, uart.r, uart.w, UART_TX_BUF_SIZE)
  /\ fifo <= 2

\* A sleep does not end early unless its process was killed, across a wrap of ticks.
SleepNotEarly ==
  [][\A p \in Procs : pc[p] = "sleep" /\ pc'[p] = "ret" => killed[p] \/ slept[p] >= call[p].left]_vars

\* Sleepers return, and while writers wait for room and the keyboard rests some writer
\* gets its byte in: no transmit interrupt is lost between uartstart, echo and ISR, and
\* no tick between sys_sleep and clockintr.  (Not every writer need get on, as all are
\* woken for one place; and keys as fast as the uart can send starve them all, since
\* uartintr echoes before it calls uartstart.)
CallsProgress ==
  /\ \A p \in Procs : pc[p] \in {"sleep", "tasleep"} ~> pc[p] = "ret"
  /\ <>[]~rx => ((\E p \in Procs : pc[p] \in {"put", "wasleep"}) ~> \E p \in Procs : pc[p] = "start")

\* A killed process exits, whatever it was waiting for, except that one killed
\* between consoleread's test of killed and its sleep may wait for the next line.
KilledReturns ==
  /\ [][\A p \in Procs : killed'[p] /\ pc'[p] = "rasleep" => killed[p] /\ pc[p] \in {"rdoze", "rasleep"}]_vars
  /\ (\E p \in Procs : killed[p] /\ pc[p] \notin {"rdoze", "rasleep"}) ~> \A p \in Procs : ~killed[p]
=============================================================================
