------------------------- MODULE SysFsWatcherProofs -------------------------
(***************************************************************************)
(* The watcher for every set of files, whichever system calls fail, and    *)
(* for every client that registers, unregisters and runs handlers.         *)
(***************************************************************************)
EXTENDS SysFsWatcher, TLAPS

\* While the main thread changes the map there is no other thread; while one
\* comes up the main thread waits; nothing is left to read but in a round of
\* reads.
Handshake ==
  /\ main = "changing" => thread = "none"
  /\ thread = "starting" => main = "starting"
  /\ thread \in {"none", "ended"} => watched = {}
  /\ thread # "reading" => toRead = {}

IInv == WatcherTypeOK /\ Handshake /\ NothingSwallowed

USE DEF threadVars, mainVars, fileVars

\* What a read returns, the file holds afterwards.
LEMMA AfterReadType ==
  ASSUME WatcherTypeOK, NEW f \in File
  PROVE  AfterRead(f) \in Content
BY WatcherAssumption DEF WatcherTypeOK, AfterRead

\* The watcher starts without files and without a thread.
LEMMA InitInv == WatcherInit => IInv
<1> SUFFICES ASSUME WatcherInit PROVE IInv
  OBVIOUS
<1>1. request \in [call : {"Register", "Unregister"}, file : File]
  BY DEF WatcherInit
<1>2. posted \in Seq(Posted)
  BY DEF WatcherInit
<1> QED BY <1>1, <1>2 DEF WatcherInit, IInv, WatcherTypeOK, Handshake,
                          NothingSwallowed

\* A file that changes is notified, and a read elsewhere leaves the
\* notification.
LEMMA FileStep ==
  ASSUME IInv, NEW f \in File, NEW v \in Content, Change(f, v) \/ ReadElsewhere(f)
  PROVE  IInv'
<1> USE DEF IInv, WatcherTypeOK
<1>1. CASE Change(f, v)
  BY <1>1 DEF Change, Handshake, NothingSwallowed
<1>2. CASE ReadElsewhere(f)
  BY <1>2, AfterReadType DEF ReadElsewhere, Handshake, NothingSwallowed
<1> QED BY <1>1, <1>2

\* A call starts while the main thread is in none, and stops the watcher
\* thread.
LEMMA CallStep ==
  ASSUME IInv, NEW f \in File, Register(f) \/ Unregister(f)
  PROVE  IInv'
<1>1. PICK c \in {"Register", "Unregister"} : Call(c, f)
  BY DEF Register, Unregister
<1>2. request' \in [call : {"Register", "Unregister"}, file : File]
  BY <1>1 DEF Call
<1>3. stopByte' \in BOOLEAN /\ main' \in {"joining", "changing"}
  BY <1>1 DEF Call, Stop
<1>4. main' = "changing" => thread' = "none"
  BY <1>1 DEF Call, Stop
<1>5. main = "idle" /\ UNCHANGED <<events, threadVars, posted, fileVars>>
  BY <1>1 DEF Call
<1> QED BY <1>2, <1>3, <1>4, <1>5
        DEF IInv, WatcherTypeOK, Handshake, NothingSwallowed

\* The main thread in Register and Unregister keeps the invariant.
LEMMA MainInv ==
  ASSUME IInv, MainStep
  PROVE  IInv'
<1> USE DEF IInv, WatcherTypeOK, Handshake, NothingSwallowed
<1>1. CASE Joined BY <1>1 DEF Joined
<1>2. CASE OpenFails BY <1>2 DEF OpenFails
<1>3. CASE Opened BY <1>3 DEF Opened, Start
<1>4. CASE Closed BY <1>4 DEF Closed, Start
<1>5. CASE Started BY <1>5 DEF Started
<1> QED BY <1>1, <1>2, <1>3, <1>4, <1>5 DEF MainStep

\* A handler that runs leaves the queue.
LEMMA HandlerInv ==
  ASSUME IInv, RunHandler
  PROVE  IInv'
BY DEF IInv, WatcherTypeOK, RunHandler, Handshake, NothingSwallowed

\* A read clears the notification and posts what it has read.
LEMMA ReadInv ==
  ASSUME IInv, NEW f \in File, ReadFile(f)
  PROVE  IInv'
<1> USE DEF IInv, ReadFile, NextRead, Read
<1>1. PICK t \in Tails :
        posted' = Append(posted, [file |-> f, data |-> content[f], tail |-> t])
  OBVIOUS
<1>2. posted' \in Seq(Posted)
  BY <1>1, WatcherAssumption DEF WatcherTypeOK, Posted
<1>3. WatcherTypeOK'
  BY <1>2, AfterReadType DEF WatcherTypeOK
<1>4. Handshake' /\ NothingSwallowed'
  BY AfterReadType DEF WatcherTypeOK, Handshake, NothingSwallowed
<1> QED BY <1>3, <1>4

\* The watcher thread keeps the invariant.
LEMMA ThreadInv ==
  ASSUME IInv, ThreadStep \/ ThreadFails
  PROVE  IInv'
<1> USE DEF IInv
<1>1. CASE \E f \in File : DummyRead(f)
  <2>1. PICK f \in File : DummyRead(f) BY <1>1
  <2> QED BY <2>1, AfterReadType
          DEF DummyRead, Read, WatcherTypeOK, Handshake, NothingSwallowed
<1>2. CASE \E f \in File : ReadFile(f)
  BY <1>2, ReadInv
<1>3. CASE \E f \in File : ReadFails(f)
  BY <1>3 DEF ReadFails, NextRead, WatcherTypeOK, Handshake, NothingSwallowed
<1>4. CASE BeginLoop
  BY <1>4 DEF BeginLoop, WatcherTypeOK, Handshake, NothingSwallowed
<1>5. CASE Poll
  BY <1>5 DEF Poll, WatcherTypeOK, Handshake, NothingSwallowed
<1>6. CASE PollFails
  BY <1>6 DEF PollFails, WatcherTypeOK, Handshake, NothingSwallowed
<1> QED BY <1>1, <1>2, <1>3, <1>4, <1>5, <1>6 DEF ThreadStep, ThreadFails

\* Every step keeps the invariant.
LEMMA NextInv == IInv /\ [WatcherNext]_watcherVars => IInv'
<1> SUFFICES ASSUME IInv, [WatcherNext]_watcherVars PROVE IInv'
  OBVIOUS
<1>1. CASE UNCHANGED watcherVars
  BY <1>1 DEF watcherVars, IInv, WatcherTypeOK, Handshake, NothingSwallowed
<1>2. CASE WatcherNext
  BY <1>2, FileStep, CallStep, MainInv, HandlerInv, ThreadInv, WatcherAssumption
     DEF WatcherNext
<1> QED BY <1>1, <1>2

\* The inductive invariant: types, the handshake of the two threads, and what a
\* file holds against what was read of it.
THEOREM WatcherInvariance == WatcherSpec => []IInv
<1> QED BY InitInv, NextInv, PTL DEF WatcherSpec

\* Types; the pollfd array is the map of files whenever the thread polls.
THEOREM TypeCorrect == WatcherSpec => []WatcherTypeOK
<1>1. IInv => WatcherTypeOK BY DEF IInv
<1> QED BY <1>1, WatcherInvariance, PTL

\* No change of a registered file is swallowed, by restarts, by reads of several
\* files, or by a thread that ends: it is posted, unless its read
\* fails, or the next poll reports it.
THEOREM NotificationTheorem == WatcherSpec => []NothingSwallowed
<1>1. IInv => NothingSwallowed BY DEF IInv
<1> QED BY <1>1, WatcherInvariance, PTL

\* The map of files is changed only while there is no watcher thread.
THEOREM RaceTheorem == WatcherSpec => NoRace
<1>1. IInv /\ [WatcherNext]_watcherVars
        => [events' # events => thread = "none"]_watcherVars
  <2> SUFFICES ASSUME IInv, WatcherNext, events' # events
               PROVE  thread = "none"
    BY DEF watcherVars
  <2>1. ~ \E f \in File : Register(f) \/ Unregister(f) \/ ReadElsewhere(f)
    BY DEF Register, Unregister, Call, ReadElsewhere
  <2>2. ~ (RunHandler \/ Joined \/ OpenFails \/ Started)
    BY DEF RunHandler, Joined, OpenFails, Started
  <2>3. ~ (ThreadStep \/ ThreadFails)
    BY DEF ThreadStep, ThreadFails, DummyRead, Read, ReadFile, ReadFails,
           NextRead, BeginLoop, Poll, PollFails
  <2>4. ~ \E f \in File, v \in Content : Change(f, v)
    BY DEF Change
  <2>5. Opened \/ Closed
    BY <2>1, <2>2, <2>3, <2>4 DEF WatcherNext, MainStep
  <2> QED BY <2>5 DEF Opened, Closed, IInv, Handshake
<1> QED BY <1>1, WatcherInvariance, PTL DEF WatcherSpec, NoRace
=============================================================================
