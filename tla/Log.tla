---------------------------------- MODULE Log ----------------------------------
(***************************************************************************)
(* adc_log.h: one logger shared by the threads of a program, the lock      *)
(* handler the program installs, and the table of callbacks.               *)
(*                                                                         *)
(* Every fprintf is a step of its own, so is every call of the handler.    *)
(* The callbacks are those of adc_log_add_fp; stdio makes one fprintf      *)
(* atomic.  The program sets the logger up while nothing is being logged,  *)
(* and logs from several threads only with a lock handler: the header      *)
(* offers nothing else.                                                    *)
(***************************************************************************)
EXTENDS Integers, Sequences

CONSTANTS Threads,
          File,          \* The streams the program adds.
          Level,         \* The levels it logs and filters at.
          NULL,
          MaxCallbacks   \* ADC_LOG_MAX_CALLBACKS.

ASSUME LogAssumption == /\ MaxCallbacks \in Nat
                        /\ Level \subseteq 0..3      \* DEBUG, INFO, WARN, ERROR
                        /\ 0 \in Level              \* a logger begins at DEBUG
                        /\ Threads # {}
                        /\ NULL \notin Threads \cup File
                        /\ "stderr" \notin File

VARIABLES lock_handler,  \* NULL, or "mutex": a lock that is not recursive.
          level,
          num_callbacks,
          callbacks,     \* The table, index 0 first.
          mutex,         \* The thread that holds the lock, or NULL.
          tm,            \* localtime's static result: the message it is the time of.
          pc,            \* Where each thread is in adc__log.
          msg,           \* The message each thread is logging.
          partial,       \* What each stream holds after its last newline.
          written        \* The streams the message of each thread went to.

setup == <<lock_handler, level, num_callbacks, callbacks>>
vars == <<lock_handler, level, num_callbacks, callbacks, mutex, tm, pc, msg,
          partial, written>>

Stream == File \cup {"stderr"}

Callback == [handler : {NULL, "file_callback"}, userdata : File, level : Level]

\* A message: its level, whether msg.time is set, the loop index, the stream
\* being written, and a bit that tells a thread's message from its last one.
Message == [level : Level, timed : BOOLEAN, i : Nat, to : Stream, bit : {0, 1}]

\* What a thread that is not logging has: only the bit means anything.
NoMessage(bit) == [level |-> 0, timed |-> FALSE, i |-> 0, to |-> "stderr", bit |-> bit]

Id(t) == <<t, msg[t].bit>>

Init == /\ lock_handler = NULL
        /\ level = 0
        /\ num_callbacks = 0
        /\ callbacks = <<>>
        /\ mutex = NULL
        /\ tm = NULL
        /\ pc = [t \in Threads |-> "idle"]
        /\ msg = [t \in Threads |-> NoMessage(0)]
        /\ partial = [s \in Stream |-> <<>>]
        /\ written = [t \in Threads |-> <<>>]

-----------------------------------------------------------------------------
(* Setting up.                                                              *)

Quiet == \A t \in Threads : pc[t] = "idle"

adc_log_set_lock_handler ==
  /\ Quiet
  /\ lock_handler' \in {NULL, "mutex"}
  /\ UNCHANGED <<level, num_callbacks, callbacks, mutex, tm, pc, msg, partial, written>>

adc_log_set_level ==
  /\ Quiet
  /\ level' \in Level
  /\ UNCHANGED <<lock_handler, num_callbacks, callbacks, mutex, tm, pc, msg, partial, written>>

\* Is there room in the table?
\* slip: one callback too many.
RoomForMore(n) == n <= MaxCallbacks
Room(n) == n < MaxCallbacks

\* A full table refuses another callback, with -1.
adc_log_add_callback ==
  /\ Quiet
  /\ IF Room(num_callbacks)
     THEN /\ \E cb \in Callback : callbacks' = Append(callbacks, cb)
          /\ num_callbacks' = num_callbacks + 1
     ELSE UNCHANGED <<callbacks, num_callbacks>>
  /\ UNCHANGED <<lock_handler, level, mutex, tm, pc, msg, partial, written>>

-----------------------------------------------------------------------------
(* adc__log.                                                                *)

Goto(t, label) == pc' = [pc EXCEPT ![t] = label]

Call(t) ==
  /\ pc[t] = "idle"
  /\ lock_handler # NULL \/ Quiet
  /\ \E l \in Level :
       msg' = [msg EXCEPT ![t] = [NoMessage(1 - @.bit) EXCEPT !.level = l]]
  /\ Goto(t, "lock")
  /\ UNCHANGED <<setup, mutex, tm, partial, written>>

\* slip: the lock is not taken.
LockNot(t) == /\ pc[t] = "lock"
              /\ Goto(t, "stderr")
              /\ UNCHANGED <<setup, mutex, tm, msg, partial, written>>
Lock(t) == /\ pc[t] = "lock"
           /\ IF lock_handler = NULL THEN UNCHANGED mutex
              ELSE mutex = NULL /\ mutex' = t
           /\ Goto(t, "stderr")
           /\ UNCHANGED <<setup, tm, msg, partial, written>>

\* Is a message of level l for an output with the given threshold?
\* slip: the threshold itself is left out.
PassesAbove(l, threshold) == l > threshold
Passes(l, threshold) == l >= threshold

Stderr(t) == /\ pc[t] = "stderr"
             /\ Goto(t, IF Passes(msg[t].level, level) THEN "init" ELSE "loop")
             /\ UNCHANGED <<setup, mutex, tm, msg, partial, written>>

Loop(t) ==
  LET cb == callbacks[msg[t].i + 1] IN
  /\ pc[t] = "loop"
  /\ msg[t].i < num_callbacks
  /\ IF cb.handler # NULL /\ Passes(msg[t].level, cb.level)
     THEN Goto(t, "init") /\ msg' = [msg EXCEPT ![t].to = cb.userdata]
     ELSE Goto(t, "loop") /\ msg' = [msg EXCEPT ![t].i = @ + 1]
  /\ UNCHANGED <<setup, mutex, tm, partial, written>>

\* slip: no unlock for a message that went nowhere.
LoopEndEarly(t) ==
  /\ pc[t] = "loop"
  /\ msg[t].i >= num_callbacks
  /\ Goto(t, IF written[t] = <<>> THEN "idle" ELSE "unlock")
  /\ UNCHANGED <<setup, mutex, tm, msg, partial, written>>
LoopEnd(t) == /\ pc[t] = "loop"
              /\ msg[t].i >= num_callbacks
              /\ Goto(t, "unlock")
              /\ UNCHANGED <<setup, mutex, tm, msg, partial, written>>

\* The time is taken once, for the first output.
InitMsg(t) == /\ pc[t] = "init"
              /\ tm' = IF msg[t].timed THEN tm ELSE Id(t)
              /\ msg' = [msg EXCEPT ![t].timed = TRUE]
              /\ Goto(t, "head")
              /\ UNCHANGED <<setup, mutex, partial, written>>

\* A line is three calls of fprintf; the first prints the time as tm has it.
Put(t, piece) ==
  partial' = [partial EXCEPT ![msg[t].to] = Append(@, piece)]

PutHead(t) == /\ pc[t] = "head"
              /\ Put(t, <<"head", Id(t), tm>>)
              /\ Goto(t, "body")
              /\ UNCHANGED <<setup, mutex, tm, msg, written>>

PutBody(t) == /\ pc[t] = "body"
              /\ Put(t, <<"body", Id(t)>>)
              /\ Goto(t, "newline")
              /\ UNCHANGED <<setup, mutex, tm, msg, written>>

\* The newline ends the line; after stderr the loop starts.
PutNewline(t) ==
  /\ pc[t] = "newline"
  /\ partial' = [partial EXCEPT ![msg[t].to] = <<>>]
  /\ written' = [written EXCEPT ![t] = Append(@, msg[t].to)]
  /\ msg' = [msg EXCEPT ![t].i = IF msg[t].to = "stderr" THEN @ ELSE @ + 1]
  /\ Goto(t, "loop")
  /\ UNCHANGED <<setup, mutex, tm>>

\* adc__log returns, and its message is gone.
Unlock(t) == /\ pc[t] = "unlock"
             /\ mutex' = IF lock_handler = NULL THEN mutex ELSE NULL
             /\ msg' = [msg EXCEPT ![t] = NoMessage(@.bit)]
             /\ written' = [written EXCEPT ![t] = <<>>]
             /\ Goto(t, "idle")
             /\ UNCHANGED <<setup, tm, partial>>

Inside(t) == \/ Lock(t) \/ Stderr(t) \/ Loop(t) \/ LoopEnd(t) \/ InitMsg(t)
             \/ PutHead(t) \/ PutBody(t) \/ PutNewline(t) \/ Unlock(t)

Next == \/ adc_log_set_lock_handler
        \/ adc_log_set_level
        \/ adc_log_add_callback
        \/ \E t \in Threads : Call(t) \/ Inside(t)

Spec == Init /\ [][Next]_vars

\* A thread that is logging goes on.
FairSpec == Spec /\ \A t \in Threads : WF_vars(Inside(t))

-----------------------------------------------------------------------------
(* Properties.                                                              *)

\* Every member is of its type (a message's level 0 when there is none), and
\* the callbacks fit the table.
TypeOK == /\ lock_handler \in {NULL, "mutex"}
          /\ level \in Level
          /\ num_callbacks \in 0..MaxCallbacks
          /\ callbacks \in Seq(Callback) /\ Len(callbacks) = num_callbacks
          /\ mutex \in Threads \cup {NULL}
          /\ tm \in (Threads \X {0, 1}) \cup {NULL}
          /\ pc \in [Threads -> {"idle", "lock", "stderr", "init", "head", "body",
                                 "newline", "loop", "unlock"}]
          /\ msg \in [Threads -> Message]
          /\ written \in [Threads -> Seq(Stream)]

\* Lines are never mixed: what a stream holds after its last newline is the
\* beginning of one line of one message, stamped with the time of that message.
WholeLines ==
  \A s \in Stream : \E t \in Threads, b \in {0, 1} :
    partial[s] \in {<<>>, << <<"head", <<t, b>>, <<t, b>> >> >>,
                    << <<"head", <<t, b>>, <<t, b>> >>, <<"body", <<t, b>> >> >>}

\* The outputs a message of level l is for, in the order they were added: upto[n]
\* is stderr and those of the first n callbacks.
WantedUpTo(l) ==
  LET upto[n \in 0..Len(callbacks)] ==
        IF n = 0 THEN IF l >= level THEN <<"stderr">> ELSE <<>>
        ELSE IF callbacks[n].handler # NULL /\ l >= callbacks[n].level
             THEN Append(upto[n - 1], callbacks[n].userdata)
             ELSE upto[n - 1]
  IN upto

Wanted(l) == WantedUpTo(l)[Len(callbacks)]

\* A message reaches every output it is for, once and in order, and no other,
\* before adc__log returns; until then, a beginning of that list.
DeliveredInOrder ==
  \A t \in Threads :
    LET wanted == Wanted(msg[t].level) IN
    /\ pc[t] = "unlock" => written[t] = wanted
    /\ pc[t] \notin {"idle", "lock"} =>
         /\ Len(written[t]) <= Len(wanted)
         /\ written[t] = SubSeq(wanted, 1, Len(written[t]))

\* Whatever a message's level and whatever the outputs, the lock taken for it
\* is given back.
LockIsReleased == mutex # NULL ~> mutex = NULL
=============================================================================
