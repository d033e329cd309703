------------------------------ MODULE Log_proofs ------------------------------
(***************************************************************************)
(* The logger, for every number of threads and streams and every size of   *)
(* the table of callbacks: lines are never mixed, the callbacks fit, and a     *)
(* message reaches the outputs it is for, in their order.                  *)
(***************************************************************************)
EXTENDS Log, NatInduction, SequenceTheorems

-----------------------------------------------------------------------------
(* The invariant.                                                           *)

Label == {"idle", "lock", "stderr", "init", "head", "body", "newline", "loop", "unlock"}

\* The thread has locked, or found no lock to take.
Holds(t) == pc[t] \notin {"idle", "lock"}

\* With a handler the thread in adc__log is the one the mutex names; without
\* one, nobody else is even on the way there.
Exclusion ==
  /\ lock_handler # NULL => \A t \in Threads : Holds(t) <=> mutex = t
  /\ lock_handler = NULL =>
       /\ mutex = NULL
       /\ \A t, u \in Threads : pc[t] # "idle" /\ pc[u] # "idle" => t = u

\* localtime's static result is the time of the message that took it.
Timing ==
  \A t \in Threads : /\ msg[t].timed => Holds(t) /\ tm = Id(t)
                     /\ pc[t] \in {"head", "body", "newline"} => msg[t].timed

Writes(t, s) == pc[t] \in {"body", "newline"} /\ msg[t].to = s

HeadOf(t) == <<"head", Id(t), Id(t)>>
BodyOf(t) == <<"body", Id(t)>>

\* A stream nobody writes to ends with a newline, one that is being written to
\* with the pieces its writer has printed.
Pieces ==
  \A s \in Stream :
    /\ (\A t \in Threads : ~Writes(t, s)) => partial[s] = <<>>
    /\ \A t \in Threads : Writes(t, s) =>
         partial[s] = IF pc[t] = "body" THEN <<HeadOf(t)>> ELSE <<HeadOf(t), BodyOf(t)>>

Streams == partial = [s \in Stream |-> partial[s]]

IInv == TypeOK /\ Exclusion /\ Timing /\ Pieces /\ Streams

\* Of the threads in adc__log there is never more than one behind the lock.
LEMMA OneHolds ==
  ASSUME TypeOK, Exclusion, NEW t \in Threads, NEW u \in Threads, Holds(t), Holds(u)
  PROVE  t = u
<1>1. pc[t] # "idle" /\ pc[u] # "idle"
  BY DEF Holds
<1> QED
  BY <1>1 DEF Exclusion

LEMMA IInvInit == Init => IInv
<1> SUFFICES ASSUME Init
             PROVE  IInv
  OBVIOUS
<1>1. NoMessage(0) \in Message
  BY LogAssumption DEF NoMessage, Message, Stream
<1>2. NoMessage(0).timed = FALSE
  BY DEF NoMessage
<1>3. \A t \in Threads : pc[t] = "idle" /\ msg[t] = NoMessage(0)
  BY DEF Init
<1>4. <<>> \in Seq(Callback) /\ Len(<<>>) = 0 /\ <<>> \in Seq(Stream)
  OBVIOUS
<1>5. TypeOK
  <2>1. /\ num_callbacks \in 0..MaxCallbacks /\ level \in Level
        /\ lock_handler = NULL /\ mutex = NULL /\ tm = NULL
    BY LogAssumption DEF Init
  <2>2. callbacks \in Seq(Callback) /\ Len(callbacks) = num_callbacks
    BY <1>4 DEF Init
  <2>3. pc \in [Threads -> Label]
    BY DEF Init, Label
  <2>4. msg \in [Threads -> Message]
    BY <1>1 DEF Init
  <2>5. written \in [Threads -> Seq(Stream)]
    BY <1>4 DEF Init
  <2> QED BY <2>1, <2>2, <2>3, <2>4, <2>5 DEF TypeOK, Label
<1>6. Exclusion
  BY <1>3 DEF Init, Exclusion
<1>7. Timing
  BY <1>2, <1>3 DEF Timing
<1>8. Pieces /\ Streams
  BY <1>3 DEF Pieces, Streams, Writes, Init
<1> QED
  BY <1>5, <1>6, <1>7, <1>8 DEF IInv

-----------------------------------------------------------------------------
(* Steps.                                                                   *)

\* Setting up while nothing is being logged.
LEMMA SettingUp ==
  ASSUME IInv, Quiet,
         lock_handler' \in {NULL, "mutex"}, level' \in Level,
         num_callbacks' \in 0..MaxCallbacks,
         callbacks' \in Seq(Callback), Len(callbacks') = num_callbacks',
         UNCHANGED <<mutex, tm, pc, msg, partial, written>>
  PROVE  IInv'
<1>1. TypeOK'
  BY DEF IInv, TypeOK
<1>2. \A t \in Threads : pc[t] = "idle" /\ ~Holds(t)
  BY DEF Quiet, Holds
<1>3. mutex = NULL
  <2>1. mutex \in Threads \cup {NULL}
    BY DEF IInv, TypeOK
  <2> QED BY <1>2, <2>1 DEF IInv, Exclusion
<1>4. Exclusion'
  BY <1>2, <1>3, LogAssumption DEF Exclusion, Holds
<1>5. Timing' /\ Pieces' /\ Streams'
  BY DEF IInv, Timing, Pieces, Streams, Holds, Id, Writes, HeadOf, BodyOf
<1> QED
  BY <1>1, <1>4, <1>5 DEF IInv

\* What a step of a thread that holds the lock has to keep, and what it keeps
\* for the others.
LEMMA HolderStep ==
  ASSUME IInv, NEW t \in Threads, Holds(t),
         NEW label \in Label \ {"idle", "lock"}, pc' = [pc EXCEPT ![t] = label],
         NEW m \in Message, msg' = [msg EXCEPT ![t] = m], m.bit = msg[t].bit,
         tm' \in {tm, Id(t)},
         m.timed => tm' = Id(t),
         label \in {"head", "body", "newline"} => m.timed,
         UNCHANGED <<setup, mutex>>, written' \in [Threads -> Seq(Stream)],
         NEW now, partial' = [partial EXCEPT ![msg[t].to] = now],
         Writes(t, msg[t].to)' =>
           now = IF label = "body" THEN <<HeadOf(t)>> ELSE <<HeadOf(t), BodyOf(t)>>,
         ~Writes(t, msg[t].to)' => now = <<>>,
         m.to # msg[t].to => label \notin {"body", "newline"}
  PROVE  IInv'
<1>1. /\ pc \in [Threads -> Label] /\ msg \in [Threads -> Message]
      /\ Id(t) \in Threads \X {0, 1} /\ msg[t].to \in Stream
  BY DEF IInv, TypeOK, Label, Id, Message
<1>2. /\ pc'[t] = label /\ msg'[t] = m
      /\ \A u \in Threads : u # t => pc'[u] = pc[u] /\ msg'[u] = msg[u]
  BY <1>1
<1>3. \A u \in Threads : Id(u)' = Id(u)
  BY <1>2 DEF Id
<1>4. \A u \in Threads : Holds(u)' <=> Holds(u)
  BY <1>2 DEF Holds
<1>5. \A u \in Threads : u # t => ~Holds(u)
  BY OneHolds DEF IInv
<1>6. TypeOK'
  <2>1. pc' \in [Threads -> Label] /\ msg' \in [Threads -> Message]
    BY <1>1
  <2>2. tm' \in (Threads \X {0, 1}) \cup {NULL}
    BY <1>1 DEF IInv, TypeOK
  <2> QED BY <2>1, <2>2 DEF IInv, TypeOK, Label, setup
<1>7. Exclusion'
  <2>1. ASSUME NEW u \in Threads, pc'[u] # "idle"
        PROVE  pc[u] # "idle"
    BY <1>2, <2>1 DEF Holds
  <2>2. mutex' = mutex /\ lock_handler' = lock_handler
    BY DEF setup
  <2> QED BY <1>4, <2>1, <2>2 DEF IInv, Exclusion
<1>8. Timing'
  <2> SUFFICES ASSUME NEW u \in Threads
               PROVE  /\ msg'[u].timed => Holds(u)' /\ tm' = Id(u)'
                      /\ pc'[u] \in {"head", "body", "newline"} => msg'[u].timed
    BY DEF Timing
  <2>1. CASE u = t
    BY <1>2, <1>3, <1>4, <2>1
  <2>2. CASE u # t
    <3>1. ~Holds(u)
      BY <1>5, <2>2
    <3> QED BY <1>2, <2>2, <3>1 DEF IInv, Timing, Holds
  <2> QED BY <2>1, <2>2
<1>9. \A s : \A u \in Threads : u # t => ~Writes(u, s) /\ ~Writes(u, s)'
  BY <1>2, <1>5 DEF Writes, Holds
<1>10. Pieces'
  <2> SUFFICES ASSUME NEW s \in Stream
               PROVE  /\ (\A u \in Threads : ~Writes(u, s)') => partial'[s] = <<>>
                      /\ \A u \in Threads : Writes(u, s)' =>
                           partial'[s] = IF pc'[u] = "body" THEN <<HeadOf(u)'>>
                                         ELSE <<HeadOf(u)', BodyOf(u)'>>
    BY DEF Pieces
  <2>1. CASE s = msg[t].to
    <3>1. partial'[s] = now
      BY <2>1 DEF IInv, Streams
    <3>2. HeadOf(t)' = HeadOf(t) /\ BodyOf(t)' = BodyOf(t)
      BY <1>3 DEF HeadOf, BodyOf
    <3>3. ~Writes(t, s)' => now = <<>>
      BY <1>2, <2>1 DEF Writes
    <3>4. Writes(t, s)' => now = IF label = "body" THEN <<HeadOf(t)>>
                                 ELSE <<HeadOf(t), BodyOf(t)>>
      BY <1>2, <2>1 DEF Writes
    <3>5. (\A u \in Threads : ~Writes(u, s)') => partial'[s] = <<>>
      BY <3>1, <3>3
    <3>6. ASSUME NEW u \in Threads, Writes(u, s)'
          PROVE  partial'[s] = IF pc'[u] = "body" THEN <<HeadOf(u)'>>
                               ELSE <<HeadOf(u)', BodyOf(u)'>>
      <4>1. u = t
        BY <1>9, <3>6
      <4>2. pc'[t] = label
        BY <1>2
      <4> QED BY <3>1, <3>2, <3>4, <3>6, <4>1, <4>2
    <3> QED BY <3>5, <3>6
  <2>2. CASE s # msg[t].to
    <3>1. partial'[s] = partial[s]
      BY <2>2 DEF IInv, Streams
    <3>2. ~Writes(t, s) /\ ~Writes(t, s)'
      BY <1>2, <2>2 DEF Writes
    <3> QED BY <1>9, <3>1, <3>2 DEF IInv, Pieces
  <2> QED BY <2>1, <2>2
<1>11. Streams'
  BY DEF IInv, Streams
<1> QED
  BY <1>6, <1>7, <1>8, <1>10, <1>11 DEF IInv

\* The holder writes alone: a stream holds what it has put there, or nothing.
LEMMA HolderWrites ==
  ASSUME IInv, NEW t \in Threads, Holds(t)
  PROVE  /\ pc[t] = "body" => partial[msg[t].to] = <<HeadOf(t)>>
         /\ pc[t] = "newline" => partial[msg[t].to] = <<HeadOf(t), BodyOf(t)>>
         /\ pc[t] \notin {"body", "newline"} => partial[msg[t].to] = <<>>
         /\ partial = [partial EXCEPT ![msg[t].to] = partial[msg[t].to]]
         /\ msg[t] \in Message /\ msg[t].to \in Stream
<1>1. msg[t] \in Message /\ msg[t].to \in Stream
  BY DEF IInv, TypeOK, Message
<1>2. \A u \in Threads : u # t => ~Writes(u, msg[t].to)
  BY OneHolds DEF IInv, Writes, Holds
<1> QED
  BY <1>1, <1>2 DEF IInv, Pieces, Streams, Writes

\* The steps that put nothing and stay behind the lock.
LEMMA SilentStep ==
  ASSUME IInv, NEW t \in Threads, Holds(t), pc[t] \notin {"body", "newline"},
         NEW label \in {"init", "head", "loop", "unlock"}, pc' = [pc EXCEPT ![t] = label],
         NEW m \in Message, msg' = [msg EXCEPT ![t] = m], m.bit = msg[t].bit,
         tm' \in {tm, Id(t)},
         m.timed => tm' = Id(t),
         label = "head" => m.timed,
         UNCHANGED <<setup, mutex, partial, written>>
  PROVE  IInv'
<1>1. /\ partial[msg[t].to] = <<>>
      /\ partial' = [partial EXCEPT ![msg[t].to] = <<>>]
  BY HolderWrites
<1>2. label \in Label \ {"idle", "lock"} /\ label \notin {"body", "newline"}
  BY DEF Label
<1>3. pc'[t] = label
  BY DEF IInv, TypeOK
<1>4. ~Writes(t, msg[t].to)'
  BY <1>2, <1>3 DEF Writes
<1>5. written' \in [Threads -> Seq(Stream)]
  BY DEF IInv, TypeOK
<1>6. label \in {"head", "body", "newline"} => m.timed
  BY <1>2
<1> QED
  BY <1>1, <1>2, <1>4, <1>5, <1>6, HolderStep

LEMMA CallStep ==
  ASSUME IInv, NEW t \in Threads, Call(t)
  PROVE  IInv'
<1>1. PICK l \in Level :
        msg' = [msg EXCEPT ![t] = [NoMessage(1 - @.bit) EXCEPT !.level = l]]
  BY DEF Call
<1> DEFINE m == [NoMessage(1 - msg[t].bit) EXCEPT !.level = l]
<1>2. /\ pc \in [Threads -> Label] /\ msg \in [Threads -> Message]
      /\ 1 - msg[t].bit \in {0, 1}
  <2>1. pc \in [Threads -> Label] /\ msg \in [Threads -> Message]
    BY DEF IInv, TypeOK, Label
  <2>2. msg[t].bit \in {0, 1}
    BY <2>1 DEF Message
  <2> QED BY <2>1, <2>2
<1>3. m \in Message /\ m.timed = FALSE
  BY <1>2 DEF NoMessage, Message, Stream
<1> HIDE DEF m
<1>4. msg' = [msg EXCEPT ![t] = m]
  BY <1>1 DEF m
<1>5. /\ pc[t] = "idle" /\ pc' = [pc EXCEPT ![t] = "lock"]
      /\ lock_handler # NULL \/ Quiet
      /\ UNCHANGED <<setup, mutex, tm, partial, written>>
  BY DEF Call, Goto
<1>6. /\ pc'[t] = "lock" /\ msg'[t] = m
      /\ \A u \in Threads : u # t => pc'[u] = pc[u] /\ msg'[u] = msg[u]
  BY <1>2, <1>4, <1>5
<1>7. \A u \in Threads : Holds(u)' <=> Holds(u)
  BY <1>5, <1>6 DEF Holds
<1>8. \A s : \A u \in Threads : (Writes(u, s)' <=> Writes(u, s))
  BY <1>5, <1>6 DEF Writes
<1>9. \A s : \A u \in Threads : Writes(u, s) => u # t
  BY <1>5 DEF Writes
<1>10. TypeOK'
  <2>1. pc' \in [Threads -> Label] /\ msg' \in [Threads -> Message]
    BY <1>2, <1>3, <1>4, <1>5 DEF Label
  <2> QED BY <1>5, <2>1 DEF IInv, TypeOK, Label, setup
<1>11. Exclusion'
  BY <1>5, <1>6, <1>7 DEF IInv, Exclusion, Quiet, setup
<1>12. Timing'
  BY <1>3, <1>5, <1>6, <1>7 DEF IInv, Timing, Id
<1>13. Pieces' /\ Streams'
  BY <1>5, <1>6, <1>8, <1>9 DEF IInv, Pieces, Streams, HeadOf, BodyOf, Id
<1> QED
  BY <1>10, <1>11, <1>12, <1>13 DEF IInv

LEMMA LockStep ==
  ASSUME IInv, NEW t \in Threads, Lock(t)
  PROVE  IInv'
<1>1. /\ pc[t] = "lock" /\ pc' = [pc EXCEPT ![t] = "stderr"]
      /\ IF lock_handler = NULL THEN mutex' = mutex ELSE mutex = NULL /\ mutex' = t
      /\ UNCHANGED <<setup, tm, msg, partial, written>>
  BY DEF Lock, Goto
<1>2. pc \in [Threads -> Label]
  BY DEF IInv, TypeOK, Label
<1>3. /\ pc'[t] = "stderr"
      /\ \A u \in Threads : u # t => pc'[u] = pc[u]
  BY <1>1, <1>2
<1>4. TypeOK'
  <2>1. pc' \in [Threads -> Label]
    BY <1>1, <1>2 DEF Label
  <2>2. mutex' \in Threads \cup {NULL}
    BY <1>1 DEF IInv, TypeOK
  <2> QED BY <1>1, <2>1, <2>2 DEF IInv, TypeOK, Label, setup
<1>5. Exclusion'
  <2>1. CASE lock_handler = NULL
    BY <1>1, <1>3, <2>1 DEF IInv, Exclusion, setup
  <2>2. CASE lock_handler # NULL
    <3>1. \A u \in Threads : ~Holds(u)
      BY <1>1, <2>2, LogAssumption DEF IInv, Exclusion
    <3> QED BY <1>1, <1>3, <2>2, <3>1 DEF Exclusion, Holds, setup
  <2> QED BY <2>1, <2>2
<1>6. Timing'
  BY <1>1, <1>3 DEF IInv, Timing, Id, Holds
<1>7. \A s : \A u \in Threads : Writes(u, s)' <=> Writes(u, s)
  BY <1>1, <1>3 DEF Writes
<1>8. Pieces' /\ Streams'
  BY <1>1, <1>3, <1>7 DEF IInv, Pieces, Streams, HeadOf, BodyOf, Id, Writes
<1> QED
  BY <1>4, <1>5, <1>6, <1>8 DEF IInv

LEMMA UnlockStep ==
  ASSUME IInv, NEW t \in Threads, Unlock(t)
  PROVE  IInv'
<1> DEFINE m == NoMessage(msg[t].bit)
<1>1. /\ pc[t] = "unlock" /\ pc' = [pc EXCEPT ![t] = "idle"]
      /\ mutex' = IF lock_handler = NULL THEN mutex ELSE NULL
      /\ msg' = [msg EXCEPT ![t] = m]
      /\ written' = [written EXCEPT ![t] = <<>>]
      /\ UNCHANGED <<setup, tm, partial>>
  BY DEF Unlock, Goto
<1>2. pc \in [Threads -> Label] /\ msg \in [Threads -> Message]
  BY DEF IInv, TypeOK, Label
<1>3. m \in Message /\ m.timed = FALSE
  BY <1>2, LogAssumption DEF NoMessage, Message, Stream
<1> HIDE DEF m
<1>4. /\ pc'[t] = "idle" /\ msg'[t] = m
      /\ \A u \in Threads : u # t => pc'[u] = pc[u] /\ msg'[u] = msg[u]
  BY <1>1, <1>2
<1>5. \A u \in Threads : u # t => ~Holds(u)
  BY <1>1, OneHolds DEF IInv, Holds
<1>6. TypeOK'
  <2>1. pc' \in [Threads -> Label] /\ msg' \in [Threads -> Message]
    BY <1>1, <1>2, <1>3 DEF Label
  <2>2. written' \in [Threads -> Seq(Stream)]
    BY <1>1 DEF IInv, TypeOK
  <2>3. mutex' \in Threads \cup {NULL}
    BY <1>1 DEF IInv, TypeOK
  <2> QED BY <1>1, <2>1, <2>2, <2>3 DEF IInv, TypeOK, Label, setup
<1>7. Exclusion'
  BY <1>1, <1>4, <1>5, LogAssumption DEF IInv, Exclusion, Holds, setup
<1>8. Timing'
  BY <1>1, <1>3, <1>4 DEF IInv, Timing, Id, Holds
<1>9. \A s : \A u \in Threads : Writes(u, s)' <=> Writes(u, s)
  BY <1>1, <1>4 DEF Writes
<1>10. Pieces' /\ Streams'
  BY <1>1, <1>4, <1>9 DEF IInv, Pieces, Streams, HeadOf, BodyOf, Id, Writes
<1> QED
  BY <1>6, <1>7, <1>8, <1>10 DEF IInv

LEMMA StderrStep ==
  ASSUME IInv, NEW t \in Threads, Stderr(t)
  PROVE  IInv'
<1>1. /\ pc[t] = "stderr" /\ UNCHANGED <<setup, mutex, tm, msg, partial, written>>
      /\ pc' = [pc EXCEPT ![t] = IF Passes(msg[t].level, level) THEN "init" ELSE "loop"]
  BY DEF Stderr, Goto
<1>2. PICK label \in {"init", "loop"} : pc' = [pc EXCEPT ![t] = label]
  BY <1>1
<1>3. Holds(t) /\ msg[t] \in Message /\ msg' = [msg EXCEPT ![t] = msg[t]]
  BY <1>1 DEF Holds, IInv, TypeOK
<1> QED
  BY <1>1, <1>2, <1>3, SilentStep DEF IInv, Timing

LEMMA LoopStep ==
  ASSUME IInv, NEW t \in Threads, Loop(t) \/ LoopEnd(t)
  PROVE  IInv'
<1>1. /\ pc[t] = "loop" /\ UNCHANGED <<setup, mutex, tm, partial, written>>
  BY DEF Loop, LoopEnd
<1>2. Holds(t) /\ msg[t] \in Message /\ msg \in [Threads -> Message]
  BY <1>1 DEF Holds, IInv, TypeOK
<1> DEFINE cb == callbacks[msg[t].i + 1]
<1> DEFINE next == [msg[t] EXCEPT !.i = @ + 1]
<1> DEFINE there == [msg[t] EXCEPT !.to = cb.userdata]
<1>3. next \in Message /\ next.bit = msg[t].bit /\ next.timed = msg[t].timed
  BY <1>2 DEF Message
<1>4. ASSUME msg[t].i < num_callbacks
      PROVE  there \in Message /\ there.bit = msg[t].bit /\ there.timed = msg[t].timed
  <2>1. msg[t].i \in Nat /\ num_callbacks \in Nat /\ Len(callbacks) = num_callbacks
        /\ callbacks \in Seq(Callback)
    BY <1>2, LogAssumption DEF Message, IInv, TypeOK
  <2>2. msg[t].i + 1 \in 1..Len(callbacks)
    BY <1>4, <2>1
  <2>3. cb \in Callback
    BY <2>1, <2>2
  <2>4. cb.userdata \in Stream
    BY <2>3 DEF Callback, Stream
  <2> HIDE DEF cb
  <2> QED BY <1>2, <2>4 DEF Message
<1>5. /\ LoopEnd(t) => pc' = [pc EXCEPT ![t] = "unlock"] /\ msg' = [msg EXCEPT ![t] = msg[t]]
      /\ Loop(t) =>
           /\ msg[t].i < num_callbacks
           /\ \/ pc' = [pc EXCEPT ![t] = "init"] /\ msg' = [msg EXCEPT ![t] = there]
              \/ pc' = [pc EXCEPT ![t] = "loop"] /\ msg' = [msg EXCEPT ![t] = next]
  BY <1>2 DEF Loop, LoopEnd, Goto
<1> HIDE DEF next, there
<1>6. PICK label \in {"init", "loop", "unlock"}, m \in Message :
        /\ pc' = [pc EXCEPT ![t] = label] /\ msg' = [msg EXCEPT ![t] = m]
        /\ m.bit = msg[t].bit /\ m.timed = msg[t].timed
  BY <1>2, <1>3, <1>4, <1>5
<1>7. m.timed => tm' = Id(t)
  BY <1>1, <1>6 DEF IInv, Timing
<1> QED
  BY <1>1, <1>2, <1>6, <1>7, SilentStep

LEMMA InitMsgStep ==
  ASSUME IInv, NEW t \in Threads, InitMsg(t)
  PROVE  IInv'
<1> DEFINE m == [msg[t] EXCEPT !.timed = TRUE]
<1>1. /\ pc[t] = "init" /\ UNCHANGED <<setup, mutex, partial, written>>
      /\ tm' = IF msg[t].timed THEN tm ELSE Id(t)
      /\ pc' = [pc EXCEPT ![t] = "head"]
      /\ msg' = [msg EXCEPT ![t] = m]
  BY DEF InitMsg, Goto, IInv, TypeOK
<1>2. Holds(t) /\ msg[t] \in Message
  BY <1>1 DEF Holds, IInv, TypeOK
<1>3. m \in Message /\ m.bit = msg[t].bit /\ m.timed
  BY <1>2 DEF Message
<1>4. tm' = Id(t)
  BY <1>1 DEF IInv, Timing
<1> HIDE DEF m
<1> QED
  BY <1>1, <1>2, <1>3, <1>4, SilentStep

LEMMA AppendSecond == \A a, b : Append(<<a>>, b) = <<a, b>>
<1> TAKE a, b
<1> DEFINE s == Append(<<a>>, b)
<1>1. /\ <<a>> \in Seq({a, b}) /\ Len(<<a>>) = 1
      /\ <<a, b>> \in Seq({a, b}) /\ Len(<<a, b>>) = 2
  OBVIOUS
<1>2. s \in Seq({a, b}) /\ Len(s) = 2 /\ s[1] = a /\ s[2] = b
  BY <1>1
<1> HIDE DEF s
<1>3. \A i \in 1..Len(s) : s[i] = <<a, b>>[i]
  <2>1. 1..2 = {1, 2}
    OBVIOUS
  <2> QED BY <1>2, <2>1
<1>4. s = <<a, b>>
  BY <1>1, <1>2, <1>3, SeqEqual
<1> QED
  BY <1>4 DEF s

LEMMA PutStep ==
  ASSUME IInv, NEW t \in Threads, PutHead(t) \/ PutBody(t)
  PROVE  IInv'
<1>1. /\ pc[t] \in {"head", "body"} /\ UNCHANGED <<setup, mutex, tm, msg, written>>
  BY DEF PutHead, PutBody
<1>2. Holds(t) /\ msg[t] \in Message /\ msg' = [msg EXCEPT ![t] = msg[t]]
  BY <1>1 DEF Holds, IInv, TypeOK
<1>3. msg[t].timed /\ tm = Id(t)
  BY <1>1 DEF IInv, Timing
<1> DEFINE old == partial[msg[t].to]
<1>4. /\ PutHead(t) => /\ pc' = [pc EXCEPT ![t] = "body"] /\ old = <<>>
                       /\ partial' = [partial EXCEPT ![msg[t].to] = Append(old, HeadOf(t))]
      /\ PutBody(t) => /\ pc' = [pc EXCEPT ![t] = "newline"] /\ old = <<HeadOf(t)>>
                       /\ partial' = [partial EXCEPT ![msg[t].to] = Append(old, BodyOf(t))]
  BY <1>2, <1>3, HolderWrites DEF PutHead, PutBody, Put, Goto, HeadOf, BodyOf
<1>5. Append(<<>>, HeadOf(t)) = <<HeadOf(t)>>
  OBVIOUS
<1>6. Append(<<HeadOf(t)>>, BodyOf(t)) = <<HeadOf(t), BodyOf(t)>>
  BY AppendSecond
<1>7. PICK label \in {"body", "newline"} :
        /\ pc' = [pc EXCEPT ![t] = label]
        /\ partial' = [partial EXCEPT ![msg[t].to] =
                         IF label = "body" THEN <<HeadOf(t)>> ELSE <<HeadOf(t), BodyOf(t)>>]
  BY <1>4, <1>5, <1>6
<1>8. /\ pc'[t] = label /\ msg'[t] = msg[t] /\ label \in Label \ {"idle", "lock"}
      /\ written' \in [Threads -> Seq(Stream)]
  BY <1>1, <1>7 DEF IInv, TypeOK, Label
<1>9. Writes(t, msg[t].to)'
  BY <1>1, <1>8 DEF Writes
<1>10. UNCHANGED <<setup, mutex>> /\ tm' = tm
  BY <1>1
<1> QED
  BY <1>2, <1>3, <1>7, <1>8, <1>9, <1>10, HolderStep

LEMMA PutNewlineStep ==
  ASSUME IInv, NEW t \in Threads, PutNewline(t)
  PROVE  IInv'
<1> DEFINE m == [msg[t] EXCEPT !.i = IF msg[t].to = "stderr" THEN @ ELSE @ + 1]
<1>1. /\ pc[t] = "newline" /\ UNCHANGED <<setup, mutex, tm>>
      /\ partial' = [partial EXCEPT ![msg[t].to] = <<>>]
      /\ written' = [written EXCEPT ![t] = Append(@, msg[t].to)]
      /\ msg' = [msg EXCEPT ![t] = m]
      /\ pc' = [pc EXCEPT ![t] = "loop"]
  BY DEF PutNewline, Goto
<1>2. Holds(t) /\ msg[t] \in Message /\ msg[t].to \in Stream /\ msg[t].timed /\ tm = Id(t)
  BY <1>1 DEF Holds, IInv, TypeOK, Message, Timing
<1>3. m \in Message /\ m.bit = msg[t].bit /\ m.to = msg[t].to
  BY <1>2 DEF Message
<1>4. written' \in [Threads -> Seq(Stream)]
  BY <1>1, <1>2 DEF IInv, TypeOK
<1> HIDE DEF m
<1>5. pc'[t] = "loop" /\ "loop" \in Label \ {"idle", "lock"}
  BY <1>1 DEF IInv, TypeOK, Label
<1>6. ~Writes(t, msg[t].to)'
  BY <1>5 DEF Writes
<1> QED
  BY <1>1, <1>2, <1>3, <1>4, <1>5, <1>6, HolderStep

LEMMA IInvNext == IInv /\ [Next]_vars => IInv'
<1> SUFFICES ASSUME IInv, [Next]_vars
             PROVE  IInv'
  OBVIOUS
<1>0. TypeOK
  BY DEF IInv
<1>1. CASE adc_log_set_lock_handler
  BY <1>0, <1>1, SettingUp DEF adc_log_set_lock_handler, TypeOK
<1>2. CASE adc_log_set_level
  BY <1>0, <1>2, SettingUp DEF adc_log_set_level, TypeOK
<1>3. CASE adc_log_add_callback
  <2>1. CASE Room(num_callbacks)
    <3>1. PICK cb \in Callback : callbacks' = Append(callbacks, cb)
      BY <1>3, <2>1 DEF adc_log_add_callback
    <3>2. num_callbacks + 1 \in 0..MaxCallbacks
      BY <1>0, <2>1, LogAssumption DEF Room, TypeOK
    <3>3. callbacks' \in Seq(Callback) /\ Len(callbacks') = num_callbacks + 1
      BY <1>0, <3>1 DEF TypeOK
    <3> QED BY <1>0, <1>3, <2>1, <3>2, <3>3, SettingUp DEF adc_log_add_callback, TypeOK
  <2>2. CASE ~Room(num_callbacks)
    BY <1>0, <1>3, <2>2, SettingUp DEF adc_log_add_callback, TypeOK
  <2> QED BY <2>1, <2>2
<1>4. ASSUME NEW t \in Threads, Call(t) \/ Inside(t)
      PROVE  IInv'
  BY <1>4, CallStep, LockStep, UnlockStep, StderrStep, LoopStep, InitMsgStep,
     PutStep, PutNewlineStep DEF Inside
<1>5. CASE UNCHANGED vars
  BY <1>5 DEF vars, setup, IInv, TypeOK, Exclusion, Timing, Pieces, Streams, Holds,
              Writes, HeadOf, BodyOf, Id
<1> QED
  BY <1>1, <1>2, <1>3, <1>4, <1>5 DEF Next

-----------------------------------------------------------------------------
(* The theorems.                                                            *)

LEMMA Inductive == Spec => []IInv
  BY IInvInit, IInvNext, PTL DEF Spec

\* The table holds no more callbacks than it has room for, and the index that
\* adc__log calls through is always that of one of them.
THEOREM CallbacksFit == Spec => []TypeOK
<1>1. IInv => TypeOK
  BY DEF IInv
<1> QED
  BY <1>1, Inductive, PTL

\* However many threads log to however many streams, no stream ever mixes the
\* lines of two messages, nor the time of one with the text of another.
THEOREM LinesAreWhole == Spec => []WholeLines
<1>1. ASSUME IInv, NEW s \in Stream
      PROVE  \E t \in Threads, b \in {0, 1} :
               partial[s] \in {<<>>, << <<"head", <<t, b>>, <<t, b>> >> >>,
                               << <<"head", <<t, b>>, <<t, b>> >>, <<"body", <<t, b>> >> >>}
  <2>1. CASE \A t \in Threads : ~Writes(t, s)
    BY <1>1, <2>1, LogAssumption DEF IInv, Pieces
  <2>2. ASSUME NEW t \in Threads, Writes(t, s)
        PROVE  \E b \in {0, 1} :
                 partial[s] \in {<<>>, << <<"head", <<t, b>>, <<t, b>> >> >>,
                                 << <<"head", <<t, b>>, <<t, b>> >>, <<"body", <<t, b>> >> >>}
    <3>1. msg[t].bit \in {0, 1}
      BY <1>1 DEF IInv, TypeOK, Message
    <3>2. partial[s] \in {<<HeadOf(t)>>, <<HeadOf(t), BodyOf(t)>>}
      BY <1>1, <2>2 DEF IInv, Pieces
    <3> QED BY <3>1, <3>2 DEF HeadOf, BodyOf, Id
  <2> QED BY <2>1, <2>2
<1>2. IInv => WholeLines
  BY <1>1 DEF WholeLines
<1> QED
  BY <1>2, Inductive, PTL
-----------------------------------------------------------------------------
(* Delivery.                                                                *)

\* Is a message of level l for the n-th callback?
Chosen(l, n) == callbacks[n].handler # NULL /\ l >= callbacks[n].level

\* What a thread has sent its message to, at each point of adc__log.
ProgressOf(t) ==
  LET upto == WantedUpTo(msg[t].level)
      next == msg[t].i + 1
  IN /\ pc[t] \in {"idle", "lock", "stderr"} =>
          written[t] = <<>> /\ msg[t].i = 0 /\ msg[t].to = "stderr"
     /\ pc[t] \in {"init", "head", "body", "newline"} =>
          IF msg[t].to = "stderr"
          THEN msg[t].level >= level /\ written[t] = <<>> /\ msg[t].i = 0
          ELSE /\ next <= num_callbacks
               /\ Chosen(msg[t].level, next) /\ callbacks[next].userdata = msg[t].to
               /\ written[t] = upto[msg[t].i]
     /\ pc[t] = "loop" => /\ msg[t].i <= num_callbacks
                          /\ written[t] = upto[msg[t].i]
     /\ pc[t] = "unlock" => written[t] = upto[num_callbacks]

Progress == \A t \in Threads : ProgressOf(t)

\* The recursion of WantedUpTo has a solution, so WantedUpTo is one.
LEMMA WantedUpToIs ==
  ASSUME TypeOK, NEW l \in Level
  PROVE  LET upto == WantedUpTo(l) IN
         /\ upto \in [0..num_callbacks -> Seq(Stream)]
         /\ upto[0] = IF l >= level THEN <<"stderr">> ELSE <<>>
         /\ \A n \in 1..num_callbacks :
              upto[n] = IF Chosen(l, n) THEN Append(upto[n - 1], callbacks[n].userdata)
                        ELSE upto[n - 1]
<1> DEFINE N == num_callbacks
           base == IF l >= level THEN <<"stderr">> ELSE <<>>
           add(n, s) == IF Chosen(l, n) THEN Append(s, callbacks[n].userdata) ELSE s
           step == [n \in 1..N |-> [s \in Seq(Stream) |-> add(n, s)]]
           Is(f) == f = [n \in 0..N |-> IF n = 0 THEN base ELSE add(n, f[n - 1])]
<1>1. N \in Nat /\ Len(callbacks) = N /\ callbacks \in Seq(Callback)
  BY LogAssumption DEF TypeOK
<1>2. base \in Seq(Stream)
  <2>1. "stderr" \in Stream
    BY DEF Stream
  <2> QED BY <2>1
<1>3. \A n \in 1..N, s \in Seq(Stream) : add(n, s) \in Seq(Stream)
  <2> SUFFICES ASSUME NEW n \in 1..N, NEW s \in Seq(Stream)
               PROVE  add(n, s) \in Seq(Stream)
    OBVIOUS
  <2>1. callbacks[n] \in Callback
    BY <1>1
  <2>2. callbacks[n].userdata \in Stream
    BY <2>1 DEF Callback, Stream
  <2> QED BY <2>2
<1> HIDE DEF N, base, add
<1>4. step \in [1..N -> [Seq(Stream) -> Seq(Stream)]]
  BY <1>3
<1> HIDE DEF step
<1>5. PICK f : Solves(f, N, Seq(Stream), base, step)
  <2>1. step \in Steps(N, Seq(Stream))
    BY <1>4 DEF Steps
  <2> QED BY <1>1, <1>2, <2>1, RecursionExists, Zenon
<1>6. \A n \in 1..N : f[n] = add(n, f[n - 1])
  <2> SUFFICES ASSUME NEW n \in 1..N
               PROVE  f[n] = add(n, f[n - 1])
    OBVIOUS
  <2>1. n - 1 \in 0..N
    BY <1>1
  <2> QED BY <1>5, <2>1 DEF step, Solves
<1>7. Is(f)
  <2>1. \A n \in 0..N : f[n] = IF n = 0 THEN base ELSE add(n, f[n - 1])
    <3> TAKE n \in 0..N
    <3>1. CASE n = 0
      BY <1>5, <3>1 DEF Solves
    <3>2. CASE n # 0
      <4>1. n \in 1..N
        BY <1>1, <3>2
      <4> QED BY <1>6, <3>2, <4>1
    <3> QED BY <3>1, <3>2
  <2>2. f \in [0..N -> Seq(Stream)]
    BY <1>5 DEF Solves
  <2> QED BY <2>1, <2>2
<1> DEFINE upto == WantedUpTo(l)
<1>8. upto = CHOOSE g : Is(g)
  BY <1>1, Zenon DEF WantedUpTo, N, base, add, Chosen
<1> HIDE DEF upto
<1>9. Is(upto)
  BY <1>7, <1>8, Zenon
<1> HIDE DEF Is
<1>10. upto[0] = base /\ \A n \in 1..N : upto[n] = add(n, upto[n - 1])
  BY <1>1, <1>9 DEF Is
<1>11. upto \in [0..N -> Seq(Stream)]
  <2> DEFINE T == {n \in 0..N : upto[n] \in Seq(Stream)}
  <2>1. 0 \in T
    BY <1>1, <1>2, <1>10
  <2>2. \A n \in 0..(N - 1) : n \in T => n + 1 \in T
    <3> SUFFICES ASSUME NEW n \in 0..(N - 1), upto[n] \in Seq(Stream)
                 PROVE  n + 1 \in T
      OBVIOUS
    <3>1. n + 1 \in 1..N /\ (n + 1) - 1 = n /\ n + 1 \in 0..N
      BY <1>1
    <3>2. upto[n + 1] = add(n + 1, upto[n])
      BY <1>10, <3>1
    <3> QED BY <1>3, <3>1, <3>2
  <2> HIDE DEF T
  <2>3. 0..N \subseteq T
    BY <1>1, <2>1, <2>2, UpFrom, 0 \in Int, N \in Int
  <2>4. \A n \in 0..N : upto[n] \in Seq(Stream)
    BY <2>3 DEF T
  <2> QED BY <1>9, <2>4 DEF Is
<1> QED
  BY <1>10, <1>11 DEF upto, N, base, add

Prefix(s, t) == Len(s) <= Len(t) /\ s = SubSeq(t, 1, Len(s))

LEMMA PrefixGrows ==
  ASSUME NEW S, NEW s \in Seq(S), NEW t \in Seq(S), Prefix(s, t), NEW x \in S
  PROVE  Prefix(s, Append(t, x))
<1> DEFINE more == Append(t, x)
<1>1. /\ more \in Seq(S) /\ Len(more) = Len(t) + 1 /\ Len(s) \in Nat /\ Len(t) \in Nat
      /\ \A k \in 1..Len(t) : more[k] = t[k]
  OBVIOUS
<1>2. Len(s) <= Len(t) /\ \A k \in 1..Len(s) : s[k] = t[k]
  BY <1>1 DEF Prefix
<1> HIDE DEF more
<1>3. /\ SubSeq(more, 1, Len(s)) \in Seq(S)
      /\ Len(SubSeq(more, 1, Len(s))) = Len(s)
      /\ \A k \in 1..Len(s) : SubSeq(more, 1, Len(s))[k] = more[k]
  BY <1>1, <1>2
<1>4. \A k \in 1..Len(s) : s[k] = SubSeq(more, 1, Len(s))[k]
  BY <1>1, <1>2, <1>3
<1>5. s = SubSeq(more, 1, Len(s))
  BY <1>3, <1>4, SeqEqual
<1> QED
  BY <1>1, <1>2, <1>5 DEF Prefix, more

LEMMA PrefixOfItself ==
  ASSUME NEW S, NEW s \in Seq(S)
  PROVE  Prefix(s, s)
<1>1. /\ SubSeq(s, 1, Len(s)) \in Seq(S)
      /\ Len(SubSeq(s, 1, Len(s))) = Len(s)
      /\ \A k \in 1..Len(s) : SubSeq(s, 1, Len(s))[k] = s[k]
  OBVIOUS
<1>2. s = SubSeq(s, 1, Len(s))
  BY <1>1, SeqEqual
<1> QED
  BY <1>2 DEF Prefix

\* What a message has been sent to at a callback is where the list begins.
LEMMA WantedBegins ==
  ASSUME TypeOK, NEW l \in Level, NEW i \in 0..num_callbacks
  PROVE  Prefix(WantedUpTo(l)[i], Wanted(l))
<1> DEFINE N == num_callbacks
           upto == WantedUpTo(l)
           T == {k \in 0..N : Prefix(upto[i], upto[k])}
<1>1. /\ upto \in [0..N -> Seq(Stream)]
      /\ \A n \in 1..N :
           upto[n] = IF Chosen(l, n) THEN Append(upto[n - 1], callbacks[n].userdata)
                     ELSE upto[n - 1]
  BY WantedUpToIs
<1>2. N \in Nat /\ Len(callbacks) = N /\ callbacks \in Seq(Callback)
  BY LogAssumption DEF TypeOK
<1> HIDE DEF N, upto
<1>3. i \in T
  BY <1>1, PrefixOfItself DEF N
<1>4. ASSUME NEW k \in i..(N - 1), k \in T
      PROVE  k + 1 \in T
  <2>1. k + 1 \in 1..N /\ k + 1 \in 0..N /\ k \in 0..N /\ (k + 1) - 1 = k /\ i \in 0..N
    BY <1>2 DEF N
  <2>2. upto[i] \in Seq(Stream) /\ upto[k] \in Seq(Stream)
    BY <1>1, <2>1
  <2>3. callbacks[k + 1].userdata \in Stream
    <3>1. callbacks[k + 1] \in Callback
      BY <1>2, <2>1
    <3> QED BY <3>1 DEF Callback, Stream
  <2>4. Prefix(upto[i], upto[k])
    BY <1>4
  <2>5. Prefix(upto[i], Append(upto[k], callbacks[k + 1].userdata))
    BY <2>2, <2>3, <2>4, PrefixGrows
  <2>6. upto[k + 1] \in {upto[k], Append(upto[k], callbacks[k + 1].userdata)}
    BY <1>1, <2>1
  <2> QED BY <2>1, <2>4, <2>5, <2>6
<1> HIDE DEF T
<1>5. i \in Int /\ N \in Int /\ N \in i..N
  BY <1>2 DEF N
<1>6. i..N \subseteq T
  BY <1>3, <1>4, <1>5, UpFrom
<1>7. Prefix(upto[i], upto[N])
  BY <1>5, <1>6 DEF T
<1> QED
  BY <1>2, <1>7 DEF Wanted, upto, N

LEMMA WantedSame ==
  ASSUME UNCHANGED setup
  PROVE  /\ \A l : WantedUpTo(l)' = WantedUpTo(l)
         /\ \A l, n : Chosen(l, n)' = Chosen(l, n)
  BY DEF setup, WantedUpTo, Chosen

\* A step of one thread is the affair of its own message.
LEMMA ProgressElsewhere ==
  ASSUME Progress, NEW t \in Threads, UNCHANGED setup, ProgressOf(t)',
         \A u \in Threads \ {t} : pc'[u] = pc[u] /\ msg'[u] = msg[u] /\ written'[u] = written[u]
  PROVE  Progress'
<1> SUFFICES ASSUME NEW u \in Threads \ {t}
             PROVE  ProgressOf(u)'
  BY DEF Progress
<1>1. WantedUpTo(msg[u].level)' = WantedUpTo(msg[u].level)
  BY WantedSame
<1>2. ProgressOf(u)
  BY DEF Progress
<1> QED
  BY <1>1, <1>2, WantedSame DEF ProgressOf, setup

LEMMA ProgressInit == Init => Progress
<1> SUFFICES ASSUME Init, NEW t \in Threads
             PROVE  ProgressOf(t)
  BY DEF Progress
<1>1. /\ pc[t] = "idle" /\ written[t] = <<>>
      /\ msg[t].i = 0 /\ msg[t].to = "stderr"
  BY DEF Init, NoMessage
<1> QED
  BY <1>1 DEF ProgressOf

LEMMA ProgressStep ==
  ASSUME IInv, Progress, NEW t \in Threads, Call(t) \/ Inside(t)
  PROVE  Progress'
<1> DEFINE upto == WantedUpTo(msg[t].level)
           N == num_callbacks
           i == msg[t].i
<1>1. /\ UNCHANGED setup
      /\ \A u \in Threads \ {t} : pc'[u] = pc[u] /\ msg'[u] = msg[u] /\ written'[u] = written[u]
  BY DEF Call, Inside, Lock, Stderr, Loop, LoopEnd, InitMsg, PutHead, PutBody, PutNewline,
         Unlock, Goto, IInv, TypeOK
<1>2. /\ TypeOK /\ ProgressOf(t)
      /\ pc[t] \in Label /\ msg[t] \in Message /\ msg \in [Threads -> Message]
      /\ pc \in [Threads -> Label] /\ written \in [Threads -> Seq(Stream)]
      /\ N \in Nat /\ i \in Nat /\ Len(callbacks) = N /\ callbacks \in Seq(Callback)
  BY LogAssumption DEF IInv, TypeOK, Progress, Label, Message
<1>3. /\ upto \in [0..N -> Seq(Stream)]
      /\ upto[0] = IF msg[t].level >= level THEN <<"stderr">> ELSE <<>>
      /\ \A n \in 1..N :
           upto[n] = IF Chosen(msg[t].level, n) THEN Append(upto[n - 1], callbacks[n].userdata)
                     ELSE upto[n - 1]
  BY <1>2, WantedUpToIs DEF Message
<1>4. /\ N' = N /\ level' = level /\ callbacks' = callbacks
      /\ \A l : WantedUpTo(l)' = WantedUpTo(l)
      /\ \A l, n : Chosen(l, n)' = Chosen(l, n)
  BY <1>1, WantedSame DEF setup
<1> SUFFICES ProgressOf(t)'
  BY <1>1, ProgressElsewhere
<1>5. CASE Call(t)
  BY <1>2, <1>5 DEF Call, Goto, NoMessage, ProgressOf
<1>6. CASE Lock(t)
  BY <1>2, <1>6 DEF Lock, Goto, ProgressOf
<1>7. CASE Stderr(t)
  <2>1. /\ pc[t] = "stderr" /\ msg'[t] = msg[t] /\ written'[t] = written[t]
        /\ pc'[t] = IF msg[t].level >= level THEN "init" ELSE "loop"
    BY <1>2, <1>7 DEF Stderr, Goto, Passes
  <2>2. written[t] = <<>> /\ i = 0 /\ msg[t].to = "stderr"
    BY <1>2, <2>1 DEF ProgressOf
  <2>3. CASE msg[t].level >= level
    BY <1>4, <2>1, <2>2, <2>3 DEF ProgressOf
  <2>4. CASE ~(msg[t].level >= level)
    <3>1. written'[t] = WantedUpTo(msg[t].level)[i]
      BY <1>3, <2>1, <2>2, <2>4
    <3> QED BY <1>2, <1>4, <2>1, <2>2, <2>4, <3>1 DEF ProgressOf
  <2> QED BY <2>3, <2>4
<1>8. CASE Loop(t)
  <2> DEFINE cb == callbacks[i + 1]
  <2>1. /\ pc[t] = "loop" /\ i < N /\ written'[t] = written[t]
        /\ IF Chosen(msg[t].level, i + 1)
           THEN pc'[t] = "init" /\ msg'[t] = [msg[t] EXCEPT !.to = cb.userdata]
           ELSE pc'[t] = "loop" /\ msg'[t] = [msg[t] EXCEPT !.i = @ + 1]
    BY <1>2, <1>8 DEF Loop, Goto, Passes, Chosen
  <2>2. written[t] = upto[i]
    BY <1>2, <2>1 DEF ProgressOf
  <2>3. i + 1 \in 1..N /\ (i + 1) - 1 = i
    BY <1>2, <2>1
  <2>4. cb.userdata # "stderr"
    <3>1. cb \in Callback
      BY <1>2, <2>3
    <3> QED BY <3>1, LogAssumption DEF Callback
  <2>5. CASE Chosen(msg[t].level, i + 1)
    <3>1. /\ pc'[t] = "init" /\ msg'[t].to = cb.userdata /\ msg'[t].i = i
          /\ msg'[t].level = msg[t].level
      BY <1>2, <2>1, <2>5 DEF Message
    <3> QED BY <1>2, <1>4, <2>1, <2>2, <2>3, <2>4, <2>5, <3>1 DEF ProgressOf
  <2>6. CASE ~Chosen(msg[t].level, i + 1)
    <3>1. /\ pc'[t] = "loop" /\ msg'[t].i = i + 1 /\ msg'[t].level = msg[t].level
      BY <1>2, <2>1, <2>6 DEF Message
    <3>2. upto[i + 1] = upto[i]
      BY <1>3, <2>3, <2>6
    <3> QED BY <1>2, <1>4, <2>1, <2>2, <2>3, <3>1, <3>2 DEF ProgressOf
  <2> QED BY <2>5, <2>6
<1>9. CASE LoopEnd(t)
  <2>1. /\ pc[t] = "loop" /\ i >= N /\ msg'[t] = msg[t] /\ written'[t] = written[t]
        /\ pc'[t] = "unlock"
    BY <1>2, <1>9 DEF LoopEnd, Goto
  <2>2. i = N /\ written[t] = upto[i]
    BY <1>2, <2>1 DEF ProgressOf
  <2> QED BY <1>4, <2>1, <2>2 DEF ProgressOf
<1>10. CASE InitMsg(t) \/ PutHead(t) \/ PutBody(t)
  <2>1. /\ pc[t] \in {"init", "head", "body"} /\ pc'[t] \in {"head", "body", "newline"}
        /\ msg'[t].i = i /\ msg'[t].to = msg[t].to /\ msg'[t].level = msg[t].level
        /\ written'[t] = written[t]
    BY <1>2, <1>10 DEF InitMsg, PutHead, PutBody, Goto, Message
  <2> QED BY <1>2, <1>4, <2>1 DEF ProgressOf
<1>11. CASE PutNewline(t)
  <2>1. /\ pc[t] = "newline" /\ pc'[t] = "loop"
        /\ written'[t] = Append(written[t], msg[t].to)
        /\ msg'[t].i = IF msg[t].to = "stderr" THEN i ELSE i + 1
        /\ msg'[t].level = msg[t].level
    BY <1>2, <1>11 DEF PutNewline, Goto, Message
  <2>2. CASE msg[t].to = "stderr"
    <3>1. msg[t].level >= level /\ written[t] = <<>> /\ i = 0
      BY <1>2, <2>1, <2>2 DEF ProgressOf
    <3>2. Append(<<>>, "stderr") = <<"stderr">>
      OBVIOUS
    <3>3. written'[t] = upto[i]
      BY <1>3, <2>1, <2>2, <3>1, <3>2
    <3> QED BY <1>2, <1>4, <2>1, <2>2, <3>1, <3>3 DEF ProgressOf
  <2>3. CASE msg[t].to # "stderr"
    <3>1. /\ i + 1 <= N /\ Chosen(msg[t].level, i + 1)
          /\ callbacks[i + 1].userdata = msg[t].to /\ written[t] = upto[i]
      BY <1>2, <2>1, <2>3 DEF ProgressOf
    <3>2. i + 1 \in 1..N /\ (i + 1) - 1 = i
      BY <1>2, <3>1
    <3>3. upto[i + 1] = Append(upto[i], msg[t].to)
      BY <1>3, <3>1, <3>2
    <3> QED BY <1>4, <2>1, <2>3, <3>1, <3>2, <3>3 DEF ProgressOf
  <2> QED BY <2>2, <2>3
<1>12. CASE Unlock(t)
  BY <1>2, <1>12 DEF Unlock, Goto, NoMessage, ProgressOf
<1> QED
  BY <1>5, <1>6, <1>7, <1>8, <1>9, <1>10, <1>11, <1>12 DEF Inside

LEMMA ProgressNext == IInv /\ Progress /\ [Next]_vars => Progress'
<1> SUFFICES ASSUME IInv, Progress, [Next]_vars
             PROVE  Progress'
  OBVIOUS
<1>1. CASE adc_log_set_lock_handler \/ adc_log_set_level \/ adc_log_add_callback
  <2>1. Quiet /\ UNCHANGED <<pc, msg, written>>
    BY <1>1 DEF adc_log_set_lock_handler, adc_log_set_level, adc_log_add_callback
  <2> QED BY <2>1 DEF Quiet, Progress, ProgressOf
<1>2. ASSUME NEW t \in Threads, Call(t) \/ Inside(t)
      PROVE  Progress'
  BY <1>2, ProgressStep
<1>3. CASE UNCHANGED vars
  <2>1. UNCHANGED setup /\ UNCHANGED <<pc, msg, written>>
    BY <1>3 DEF vars, setup
  <2> QED BY <2>1, WantedSame DEF Progress, ProgressOf, setup
<1> QED
  BY <1>1, <1>2, <1>3 DEF Next

\* Whatever the levels and the outputs, a message reaches every output it is
\* for, once and in the order they were added, and no other.
THEOREM MessagesAreDelivered == Spec => []DeliveredInOrder
<1>1. ASSUME IInv, Progress, NEW t \in Threads, pc[t] \notin {"idle", "lock"}
      PROVE  /\ pc[t] = "unlock" => written[t] = Wanted(msg[t].level)
             /\ Prefix(written[t], Wanted(msg[t].level))
  <2> DEFINE upto == WantedUpTo(msg[t].level)
             N == num_callbacks
             wanted == Wanted(msg[t].level)
  <2>1. /\ TypeOK /\ pc[t] \in Label /\ msg[t].level \in Level /\ msg[t].i \in Nat
        /\ N \in Nat /\ Len(callbacks) = N
    BY <1>1, LogAssumption DEF IInv, TypeOK, Label, Message
  <2>2. \A i \in 0..N : Prefix(upto[i], wanted)
    BY <2>1, WantedBegins
  <2>3. wanted = upto[N] /\ wanted \in Seq(Stream)
    BY <2>1, WantedUpToIs DEF Wanted
  <2>4. CASE \E i \in 0..N : written[t] = upto[i]
    BY <1>1, <2>2, <2>3, <2>4 DEF Progress, ProgressOf
  <2>5. CASE written[t] = <<>>
    <3>1. Prefix(<<>>, wanted)
      BY <2>3 DEF Prefix
    <3> QED BY <1>1, <2>3, <2>5, <3>1 DEF Progress, ProgressOf
  <2>6. written[t] = <<>> \/ \E i \in 0..N : written[t] = upto[i]
    BY <1>1, <2>1 DEF Progress, ProgressOf, Label
  <2> QED BY <2>4, <2>5, <2>6
<1>2. IInv /\ Progress => DeliveredInOrder
  BY <1>1 DEF DeliveredInOrder, Prefix
<1> QED
  BY <1>2, Inductive, ProgressInit, ProgressNext, PTL DEF Spec

=============================================================================
