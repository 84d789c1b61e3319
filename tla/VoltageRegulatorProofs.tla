----------------------- MODULE VoltageRegulatorProofs -----------------------
(***************************************************************************)
(* The regulator for any hardware and whichever system calls fail: it is a *)
(* client of the watcher, its three signals agree, and its shadows follow  *)
(* the files.  And, for the hardware that the code is written for, at rest *)
(* it is off when it is not wanted.                                        *)
(***************************************************************************)
EXTENDS VoltageRegulator, SysFsWatcherProofs

USE DEF threadVars, mainVars, fileVars, shadowVars, signalVars, evalVars

\* What each file can hold.
Holds(f, v) == CASE f = "state" -> v \in State
                 [] f = "status" -> v \in Status
                 [] OTHER -> v \in Events

\* No file is registered twice, none unregistered.
Registers ==
  /\ request.call = "Register"
  /\ main \in {"joining", "changing"} => request.file \notin events

\* Handlers that are posted, and those that ran, are of files that were read.
WasRead ==
  /\ \A k \in DOMAIN posted :
       /\ posted[k].file \in events \ unread
       /\ posted[k].tail \in Tails
       /\ Holds(posted[k].file, posted[k].data)
  /\ delivered \subseteq events \ unread

\* The handler posted last for a file has what the file held when it was read
\* last; without one the shadow shows that.
LatestOf(k) ==
  \A j \in DOMAIN posted : j > k => posted[j].file # posted[k].file
NoneOf(f) == \A k \in DOMAIN posted : posted[k].file # f

LastReadShows ==
  "read" \notin Fails =>
    /\ \A k \in DOMAIN posted :
         posted[k].file # "events" /\ LatestOf(k)
           => posted[k].data = base[posted[k].file]
    /\ "state" \in delivered /\ NoneOf("state") =>
         \/ stateShadow = base["state"]
         \/ TRUE \in Tails /\ stateShadow = "unknown"
    /\ "status" \in delivered /\ NoneOf("status") =>
         \/ statusShadow = base["status"]
         \/ TRUE \in Tails /\ statusShadow = "error"

\* No handler runs before the constructor is done.
ConstructedFirst == ctor # "done" => delivered = {}

RInv == ConstructedFirst /\ IInv /\ TypeOK /\ PowerGoodDefined /\ Registers
        /\ WasRead /\ LastReadShows

-----------------------------------------------------------------------------
\* Every step of the regulator is a step of the watcher or leaves it alone.
LEMMA WatcherSimulates ==
  ASSUME TypeOK, [Next]_vars
  PROVE  [WatcherNext]_watcherVars
<1> USE RegulatorAssumption DEF watcherVars
<1>1. CASE UNCHANGED vars
  BY <1>1 DEF vars
<1>2. CASE FindSysfs \/ ReadStatus \/ ReadState \/ NoEvents \/ ReadEventsFails
           \/ Evaluate \/ OtherSignal
  BY <1>2 DEF FindSysfs, ReadStatus, ReadState, NoEvents, ReadEventsFails,
              Evaluate, OtherSignal
<1>3. CASE WatchState \/ WatchStatus \/ WatchEvents
  BY <1>3 DEF WatchState, WatchStatus, WatchEvents, WatcherNext
<1>4. CASE ReadEvents
  BY <1>4 DEF ReadEvents, WatcherNext
<1>5. CASE WatcherCall \/ WatcherThread \/ WatcherFails \/ Handler
  BY <1>5 DEF WatcherCall, WatcherThread, WatcherFails, Handler, WatcherNext
<1>6. CASE StateChanges
  <2>1. PICK v \in State : Change("state", v)
    <3>1. CASE Independent BY <1>6, <3>1 DEF StateChanges
    <3>2. CASE ~Independent
      BY <1>6, <3>2 DEF StateChanges, TypeOK
    <3> QED BY <3>1, <3>2
  <2> QED BY <2>1 DEF WatcherNext
<1>7. CASE StatusChanges
  BY <1>7 DEF StatusChanges, WatcherNext, TypeOK
<1>8. CASE Failure
  BY <1>8 DEF Failure, WatcherNext, Events
<1> QED BY <1>1, <1>2, <1>3, <1>4, <1>5, <1>6, <1>7, <1>8
        DEF Next, Construct, Hardware

-----------------------------------------------------------------------------
\* Before the constructor nothing is read or posted.
LEMMA InitRInv == Init => RInv
<1> SUFFICES ASSUME Init PROVE RInv
  OBVIOUS
<1>1. IInv BY InitInv DEF Init
<1>2. WatcherTypeOK BY <1>1 DEF IInv
<1>3. content["status"] \in Status
  BY RegulatorAssumption DEF Init, State
<1>4. TypeOK
  <2>1. content["state"] \in State /\ consumer \in State
    BY DEF Init, State
  <2>2. ahead \in 0..Len(posted)
    BY DEF Init, WatcherInit
  <2> QED BY <1>2, <1>3, <2>1, <2>2
          DEF Init, WatcherInit, TypeOK, State, Status, Events
<1>5. PowerGoodDefined /\ Registers /\ WasRead /\ LastReadShows
      /\ ConstructedFirst
  BY DEF Init, WatcherInit, PowerGoodDefined, Registers, WasRead, LastReadShows,
         ConstructedFirst
<1> QED BY <1>1, <1>4, <1>5 DEF RInv

\* The levels DecodeStatesSysfs leaves agree with each other.
LEMMA DecodeAgrees ==
  ASSUME NEW s \in State, NEW t \in Status, NEW e \in Events,
         enabled \in BOOLEAN, fault \in BOOLEAN, powergood \in BOOLEAN,
         dirty \in BOOLEAN, PowerGoodDefined, DecodeStatesSysfs(s, t, e)
  PROVE  /\ PowerGoodDefined'
         /\ enabled' \in BOOLEAN /\ fault' \in BOOLEAN
         /\ powergood' \in BOOLEAN /\ dirty' \in BOOLEAN
<1>1. enabled' = (s # "disabled" /\ t # "off")
  BY DEF DecodeStatesSysfs, Enabled
<1>2. powergood' = (s # "disabled" /\ t # "off" /\ t # "error")
  BY DEF DecodeStatesSysfs, PowerGood, Enabled
<1>3. fault' = IF s = "disabled" THEN fault \/ e = "failure" ELSE t = "error"
  BY DEF DecodeStatesSysfs, Fault
<1>4. dirty' \in BOOLEAN
  BY DEF DecodeStatesSysfs
<1>5. enabled' \in BOOLEAN /\ powergood' \in BOOLEAN
  BY <1>1, <1>2
<1>6. fault' \in BOOLEAN
  <2>1. CASE s = "disabled" BY <1>3, <2>1
  <2>2. CASE s # "disabled" BY <1>3, <2>2
  <2> QED BY <2>1, <2>2
<1>7. PowerGoodDefined'
  <2>1. CASE s = "disabled" BY <1>1, <1>2, <2>1 DEF PowerGoodDefined
  <2>2. CASE s # "disabled" BY <1>1, <1>2, <1>3, <2>2 DEF PowerGoodDefined, Status
  <2> QED BY <2>1, <2>2
<1> QED BY <1>4, <1>5, <1>6, <1>7

-----------------------------------------------------------------------------
(* The watcher's variables.                                                *)

\* A handler that is posted is one of a file.
LEMMA PostedFile ==
  ASSUME WatcherTypeOK, NEW k \in DOMAIN posted
  PROVE  posted[k].file \in File
<1>1. posted[k] \in Posted
  BY DEF WatcherTypeOK
<1> QED BY <1>1 DEF Posted

\* What was proved of the handlers, what was read, and the shadows.
WatcherPart == Registers /\ WasRead /\ LastReadShows

\* Steps that change neither the handlers, nor what was read, nor the regulator
\* leave them.
LEMMA QuietStep ==
  ASSUME RInv, UNCHANGED <<events, posted, unread, base, delivered>>,
         UNCHANGED <<stateShadow, statusShadow>>, Registers'
  PROVE  WatcherPart'
BY DEF RInv, WatcherPart, WasRead, LastReadShows, LatestOf, NoneOf

\* So do steps of the constructor, when no handler has run.
LEMMA EarlyStep ==
  ASSUME RInv, UNCHANGED <<events, posted, unread, base, delivered>>,
         ctor # "done", Registers'
  PROVE  WatcherPart'
BY DEF RInv, WatcherPart, WasRead, LastReadShows, LatestOf, NoneOf,
       ConstructedFirst

\* So do the steps of the main thread in Register.
LEMMA MainPart ==
  ASSUME RInv, WatcherCall
  PROVE  WatcherPart'
<1> USE DEF WatcherCall, regVars
<1>1. CASE Joined \/ OpenFails \/ Started
  BY <1>1, QuietStep DEF Joined, OpenFails, Started, RInv, Registers
<1>2. CASE Opened
  BY <1>2 DEF Opened, Start, RInv, Registers, WatcherPart, WasRead,
              LastReadShows, LatestOf, NoneOf
<1>3. ~Closed
  BY DEF Closed, RInv, Registers
<1> QED BY <1>1, <1>2, <1>3 DEF MainStep

\* A read of the watcher thread posts what it has read.
LEMMA ReadPart ==
  ASSUME RInv, NEW f \in File, ReadFile(f), UNCHANGED regVars
  PROVE  WatcherPart'
<1> USE RegulatorAssumption DEF ReadFile, NextRead, Read, RInv, regVars
<1>1. PICK t \in Tails :
        posted' = Append(posted, [file |-> f, data |-> content[f], tail |-> t])
  OBVIOUS
<1>2. posted \in Seq(Posted) /\ content \in [File -> Content]
      /\ base \in [File -> Content] /\ toRead \subseteq events
  BY DEF IInv, WatcherTypeOK
<1>3. /\ Len(posted') = Len(posted) + 1
      /\ DOMAIN posted' = 1..(Len(posted) + 1)
      /\ DOMAIN posted = 1..Len(posted)
      /\ \A k \in DOMAIN posted : posted'[k] = posted[k]
      /\ posted'[Len(posted')] = [file |-> f, data |-> content[f], tail |-> t]
  BY <1>1, <1>2
<1>4. Len(posted) \in Nat
  BY <1>2
<1>5. Registers'
  BY DEF Registers
<1>6. Holds(f, content[f])
  BY DEF Holds, TypeOK
<1>7. WasRead'
  <2>1. f \in events' \ unread'
    BY <1>2
  <2>2. \A k \in DOMAIN posted : posted[k].file \in events' \ unread'
    BY DEF WasRead
  <2>3. ASSUME NEW k \in DOMAIN posted'
        PROVE  /\ posted'[k].file \in events' \ unread'
               /\ posted'[k].tail \in Tails
               /\ Holds(posted'[k].file, posted'[k].data)
    <3>1. CASE k \in DOMAIN posted BY <1>3, <2>2, <3>1 DEF WasRead
    <3>2. CASE k = Len(posted') BY <1>3, <1>6, <2>1, <3>2
    <3> QED BY <1>3, <1>4, <3>1, <3>2
  <2>4. delivered' \subseteq events' \ unread'
    BY DEF WasRead
  <2> QED BY <2>3, <2>4 DEF WasRead
<1>8. base' = [base EXCEPT ![f] = AfterRead(f)]
  OBVIOUS
<1>9. f # "events" => base'[f] = content[f]
  BY <1>2, <1>8 DEF AfterRead
<1>10. LastReadShows'
  <2> SUFFICES ASSUME "read" \notin Fails PROVE LastReadShows'
    BY DEF LastReadShows
  <2>1. ASSUME NEW k \in DOMAIN posted', posted'[k].file # "events", LatestOf(k)'
        PROVE  posted'[k].data = base'[posted'[k].file]
    <3>1. CASE k \in DOMAIN posted
      <4>1. Len(posted') \in DOMAIN posted' /\ Len(posted') > k
        BY <1>3, <1>4, <3>1
      <4>2. posted[k].file # f
        BY <1>3, <2>1, <3>1, <4>1 DEF LatestOf
      <4>3. LatestOf(k)
        BY <1>3, <1>4, <2>1, <3>1 DEF LatestOf
      <4>4. posted[k].data = base[posted[k].file]
        BY <1>3, <2>1, <3>1, <4>3 DEF LastReadShows
      <4>5. posted[k].file \in File
        BY <3>1, PostedFile DEF IInv
      <4> QED BY <1>2, <1>3, <1>8, <3>1, <4>2, <4>4, <4>5
    <3>2. CASE k = Len(posted') BY <1>3, <1>9, <2>1, <3>2
    <3> QED BY <1>3, <1>4, <3>1, <3>2
  <2>2. ASSUME NEW g \in {"state", "status"}, NoneOf(g)'
        PROVE  NoneOf(g) /\ base'[g] = base[g]
    <3>1. NoneOf(g) BY <1>3, <1>4, <2>2 DEF NoneOf
    <3>2. Len(posted') \in DOMAIN posted' BY <1>3, <1>4
    <3>3. f # g BY <1>3, <2>2, <3>2 DEF NoneOf
    <3> QED BY <1>2, <1>8, <3>1, <3>3
  <2> QED BY <2>1, <2>2 DEF LastReadShows
<1> QED BY <1>5, <1>7, <1>10 DEF WatcherPart

\* The first read of a descriptor posts nothing.
LEMMA DummyPart ==
  ASSUME RInv, NEW f \in File, DummyRead(f), UNCHANGED regVars
  PROVE  WatcherPart'
<1> USE DEF regVars
<1>1. CASE f \notin unread
  BY <1>1, QuietStep DEF DummyRead, RInv, Registers
<1>2. CASE f \in unread
  <2>1. UNCHANGED <<events, posted, regVars, main, request>>
        /\ unread' = unread \ {f}
        /\ base' = [base EXCEPT ![f] = AfterRead(f)]
    BY <1>2 DEF DummyRead, Read
  <2>2. posted \in Seq(Posted) /\ base \in [File -> Content]
    BY DEF RInv, IInv, WatcherTypeOK
  <2>3. \A k \in DOMAIN posted : posted[k].file \in File /\ posted[k].file # f
    BY <1>2, PostedFile DEF RInv, IInv, WasRead
  <2>4. f \notin delivered
    BY <1>2 DEF RInv, WasRead
  <2>5. \A g \in File \ {f} : base'[g] = base[g]
    BY <2>1, <2>2
  <2> QED BY <2>1, <2>3, <2>4, <2>5, RegulatorAssumption
          DEF RInv, WatcherPart, Registers, WasRead, LastReadShows, LatestOf,
              NoneOf
<1> QED BY <1>1, <1>2

\* Every step of the watcher thread keeps it.
LEMMA ThreadPart ==
  ASSUME RInv, WatcherThread \/ WatcherFails
  PROVE  WatcherPart'
<1>1. UNCHANGED regVars /\ (ThreadStep \/ ThreadFails)
  BY DEF WatcherThread, WatcherFails
<1>2. CASE \E f \in File : DummyRead(f) BY <1>1, <1>2, DummyPart
<1>3. CASE \E f \in File : ReadFile(f) BY <1>1, <1>3, ReadPart
<1>4. CASE BeginLoop \/ Poll \/ PollFails
  BY <1>1, <1>4, QuietStep
     DEF BeginLoop, Poll, PollFails, RInv, Registers, regVars
<1>5. CASE \E f \in File : ReadFails(f)
  BY <1>1, <1>5
     DEF ReadFails, NextRead, RInv, WatcherPart, Registers, WasRead,
         LastReadShows, regVars
<1> QED BY <1>1, <1>2, <1>3, <1>4, <1>5 DEF ThreadStep, ThreadFails

-----------------------------------------------------------------------------
(* Types.                                                                  *)

\* What the files hold has the type of the file.
FilesOK ==
  /\ content["state"] \in State
  /\ content["status"] \in Status
  /\ content["events"] \in Events

\* A read, which may clear the file, keeps its type.
LEMMA ReadKeepsFiles ==
  ASSUME WatcherTypeOK, FilesOK, NEW f \in File,
         content' = [content EXCEPT ![f] = AfterRead(f)]
  PROVE  FilesOK'
BY RegulatorAssumption DEF WatcherTypeOK, FilesOK, AfterRead, Events

\* A step of the watcher keeps the types of the regulator.
LEMMA WatcherTypes ==
  ASSUME RInv, WatcherCall \/ WatcherThread \/ WatcherFails, WatcherPart', IInv'
  PROVE  TypeOK'
<1> USE DEF RInv, TypeOK, IInv
<1>1. UNCHANGED regVars
  BY DEF WatcherCall, WatcherThread, WatcherFails
<1>2. FilesOK'
  <2>1. CASE UNCHANGED content BY <2>1 DEF FilesOK
  <2>2. CASE \E f \in File : content' = [content EXCEPT ![f] = AfterRead(f)]
    BY <2>2, ReadKeepsFiles DEF FilesOK
  <2> QED BY <2>1, <2>2
          DEF WatcherCall, WatcherThread, WatcherFails, MainStep, ThreadStep,
              ThreadFails, Joined, OpenFails, Opened, Closed, Started,
              DummyRead, ReadFile, ReadFails, Read, BeginLoop, Poll, PollFails
<1>3. Len(posted') \in Nat /\ Len(posted') >= Len(posted)
  <2>1. CASE UNCHANGED posted BY <2>1 DEF WatcherTypeOK
  <2>2. CASE \E x \in Posted : posted' = Append(posted, x)
    BY <2>2 DEF WatcherTypeOK
  <2>3. ASSUME NEW f \in File, ReadFile(f)
        PROVE  \E x \in Posted : posted' = Append(posted, x)
    BY <2>3, WatcherAssumption DEF ReadFile, WatcherTypeOK, Posted
  <2> QED BY <2>1, <2>2, <2>3
          DEF WatcherCall, WatcherThread, WatcherFails, MainStep, ThreadStep,
              ThreadFails, Joined, OpenFails, Opened, Closed, Started,
              DummyRead, ReadFails, BeginLoop, Poll, PollFails
<1>4. ahead' \in 0..Len(posted')
  BY <1>1, <1>3 DEF regVars, WatcherTypeOK
<1>5. delivered' \subseteq events'
  BY DEF WatcherPart, WasRead
<1> QED BY <1>1, <1>2, <1>4, <1>5 DEF regVars, FilesOK

-----------------------------------------------------------------------------
(* The regulator's own steps.                                              *)

\* Steps of the constructor.
LEMMA ConstructStep ==
  ASSUME RInv, IInv', Construct
  PROVE  RInv'
<1>1. UNCHANGED <<events, posted, unread, base, delivered, consumer, on>>
      /\ ctor # "done"
  BY DEF Construct, FindSysfs, ReadStatus, ReadState, WatchState, WatchStatus,
         NoEvents, ReadEvents, ReadEventsFails, WatchEvents, watcherVars,
         Register, Call, ReadElsewhere
<1>2. Registers'
  <2>1. CASE UNCHANGED mainVars
    BY <1>1, <2>1 DEF RInv, Registers
  <2>2. ASSUME NEW f \in File, Register(f) PROVE Registers'
    BY <2>2 DEF Register, Call, Registers
  <2> QED BY <2>1, <2>2, RegulatorAssumption
          DEF Construct, FindSysfs, ReadStatus, ReadState, WatchState,
              WatchStatus, NoEvents, ReadEvents, ReadEventsFails, WatchEvents,
              watcherVars, ReadElsewhere
<1>3. WatcherPart'
  BY <1>1, <1>2, EarlyStep
<1>4. ConstructedFirst'
  BY <1>1 DEF RInv, ConstructedFirst
<1>5. FilesOK'
  <2>1. CASE UNCHANGED content
    BY <2>1 DEF FilesOK, RInv, TypeOK
  <2>2. CASE ReadEvents
    BY <2>2, ReadKeepsFiles, RegulatorAssumption
       DEF ReadEvents, ReadElsewhere, FilesOK, RInv, TypeOK
  <2> QED BY <2>1, <2>2
          DEF Construct, FindSysfs, ReadStatus, ReadState, WatchState,
              WatchStatus, NoEvents, ReadEventsFails, WatchEvents, watcherVars,
              Register, Call
<1>6. ahead' \in 0..Len(posted') /\ dirty \in BOOLEAN
  BY <1>1 DEF RInv, TypeOK, Construct, FindSysfs, ReadStatus, ReadState,
              WatchState, WatchStatus, NoEvents, ReadEvents, ReadEventsFails,
              WatchEvents
<1>7. /\ stateShadow' \in State
      /\ statusShadow' \in Status
      /\ eventsShadow' \in Events
  BY DEF RInv, TypeOK, Construct, FindSysfs, ReadStatus, ReadState, WatchState,
         WatchStatus, NoEvents, ReadEvents, ReadEventsFails, WatchEvents,
         ReadLine, DecodeRegulatorEvent, Status, State
<1>8. /\ PowerGoodDefined'
      /\ enabled' \in BOOLEAN /\ fault' \in BOOLEAN
      /\ powergood' \in BOOLEAN /\ dirty' \in BOOLEAN
  <2>1. CASE UNCHANGED <<signalVars, dirty>>
    BY <2>1 DEF RInv, TypeOK, PowerGoodDefined
  <2>2. CASE ReadState
    BY <2>2, <1>7, DecodeAgrees DEF ReadState, RInv, TypeOK
  <2> QED BY <2>1, <2>2
          DEF Construct, FindSysfs, ReadStatus, WatchState, WatchStatus,
              NoEvents, ReadEvents, ReadEventsFails, WatchEvents
<1>9. ctor' \in {"find", "readStatus", "readState", "state", "status", "exists",
                 "events", "done", "failed"}
  BY DEF Construct, FindSysfs, ReadStatus, ReadState, WatchState, WatchStatus,
         NoEvents, ReadEvents, ReadEventsFails, WatchEvents
<1>10. TypeOK'
  BY <1>1, <1>3, <1>5, <1>6, <1>7, <1>8, <1>9
     DEF TypeOK, IInv, FilesOK, WatcherPart, WasRead, RInv
<1> QED BY <1>3, <1>4, <1>8, <1>10 DEF RInv, WatcherPart

\* Evaluations, other signals and the hardware leave the shadows and the signals
\* alone.
LEMMA OtherStep ==
  ASSUME RInv, IInv', Evaluate \/ OtherSignal \/ Hardware
  PROVE  RInv'
<1>1. UNCHANGED <<events, posted, unread, base, delivered, mainVars, shadowVars,
                  signalVars, ctor>>
  BY DEF Evaluate, OtherSignal, Hardware, StateChanges, StatusChanges, Failure,
         watcherVars, regVars, Change
<1>2. Registers' /\ ConstructedFirst' /\ PowerGoodDefined'
  BY <1>1 DEF RInv, Registers, ConstructedFirst, PowerGoodDefined
<1>3. WatcherPart'
  BY <1>1, <1>2, QuietStep
<1>4. /\ on' \in BOOLEAN /\ dirty' \in BOOLEAN
      /\ consumer' \in State
      /\ ahead' \in 0..Len(posted')
  <2>1. Len(posted) \in Nat
    BY DEF RInv, IInv, WatcherTypeOK
  <2>2. CASE Evaluate
    BY <1>1, <2>1, <2>2 DEF Evaluate, Apply, RInv, TypeOK, State
  <2>3. CASE OtherSignal
    BY <1>1, <2>1, <2>3 DEF OtherSignal, RInv, TypeOK
  <2>4. CASE UNCHANGED regVars
    BY <1>1, <2>4 DEF regVars, RInv, TypeOK
  <2> QED BY <2>2, <2>3, <2>4
          DEF Hardware, StateChanges, StatusChanges, Failure
<1>5. FilesOK'
  <2>1. CASE UNCHANGED content
    BY <2>1 DEF RInv, TypeOK, FilesOK
  <2>2. CASE \E v \in State : Change("state", v)
    BY <2>2 DEF Change, RInv, TypeOK, FilesOK, IInv, WatcherTypeOK
  <2>3. CASE \E v \in Status : Change("status", v)
    BY <2>3 DEF Change, RInv, TypeOK, FilesOK, IInv, WatcherTypeOK
  <2>4. CASE Change("events", "failure")
    BY <2>4 DEF Change, RInv, TypeOK, FilesOK, IInv, WatcherTypeOK, Events
  <2>5. CASE StateChanges
    <3>1. CASE Independent BY <2>2, <2>5, <3>1 DEF StateChanges
    <3>2. CASE ~Independent
      BY <2>2, <2>5, <3>2 DEF StateChanges, RInv, TypeOK
    <3> QED BY <3>1, <3>2
  <2>6. CASE StatusChanges
    BY <2>3, <2>6, RegulatorAssumption DEF StatusChanges, RInv, TypeOK
  <2> QED BY <2>1, <2>4, <2>5, <2>6
          DEF Evaluate, OtherSignal, Hardware, Failure, watcherVars
<1>6. TypeOK'
  BY <1>1, <1>3, <1>4, <1>5
     DEF TypeOK, IInv, FilesOK, WatcherPart, WasRead, RInv
<1> QED BY <1>2, <1>3, <1>6 DEF RInv, WatcherPart

-----------------------------------------------------------------------------
(* Handlers.                                                               *)

\* A handler sets the shadow of its file to what it carries, which is what was
\* read last if it is the last handler.
LEMMA HandlerStep ==
  ASSUME RInv, IInv', Handler
  PROVE  RInv'
<1> DEFINE m == Head(posted)
<1> USE DEF RunHandler
<1>1. /\ posted \in Seq(Posted) /\ posted # <<>> /\ posted' = Tail(posted)
      /\ UNCHANGED <<events, unread, base, content, mainVars, ctor, on, consumer>>
      /\ delivered' = delivered \cup {m.file}
      /\ ctor = "done"
  BY DEF Handler, RInv, IInv, WatcherTypeOK
<1>2. /\ Len(posted) \in Nat \ {0} /\ Len(posted') = Len(posted) - 1
      /\ DOMAIN posted = 1..Len(posted) /\ DOMAIN posted' = 1..(Len(posted) - 1)
      /\ \A k \in DOMAIN posted' : posted'[k] = posted[k + 1]
      /\ m = posted[1] /\ 1 \in DOMAIN posted
  BY <1>1
<1>3. /\ m.file \in events \ unread
      /\ m.tail \in Tails
      /\ Holds(m.file, m.data)
  BY <1>2 DEF RInv, WasRead
<1>4. m.file \in {"state", "status", "events"}
  BY <1>2, PostedFile, RegulatorAssumption DEF RInv, IInv
<1>5. Registers' /\ ConstructedFirst'
  BY <1>1 DEF RInv, Registers, ConstructedFirst
<1>6. WasRead'
  BY <1>1, <1>2, <1>3 DEF RInv, WasRead
<1>7. /\ stateShadow' = IF m.file = "state" THEN DecodeState(m.data, m.tail)
                        ELSE stateShadow
      /\ statusShadow' = IF m.file = "status" THEN DecodeStatus(m.data, m.tail)
                         ELSE statusShadow
      /\ eventsShadow' = IF m.file = "events" THEN DecodeRegulatorEvent(m.data)
                         ELSE eventsShadow
  BY DEF Handler
<1>8. m.tail \in BOOLEAN
  BY <1>3, WatcherAssumption
<1>9. /\ stateShadow' \in State
      /\ statusShadow' \in Status
      /\ eventsShadow' \in Events
  BY <1>3, <1>4, <1>7
     DEF RInv, TypeOK, Holds, DecodeState, DecodeStatus, DecodeRegulatorEvent,
         State, Status
<1>10. /\ PowerGoodDefined'
       /\ enabled' \in BOOLEAN /\ fault' \in BOOLEAN
       /\ powergood' \in BOOLEAN /\ dirty' \in BOOLEAN
  <2>1. DecodeStatesSysfs(stateShadow', statusShadow', eventsShadow')
    BY DEF Handler
  <2> QED BY <1>9, <2>1, DecodeAgrees DEF RInv, TypeOK
<1>11. ahead' \in 0..Len(posted')
  <2>1. ahead \in 0..Len(posted) /\ (dirty => ahead > 0)
        /\ ahead' = IF dirty THEN ahead - 1
                    ELSE IF dirty' THEN Len(posted') ELSE 0
    BY DEF Handler, RInv, TypeOK
  <2> QED BY <1>2, <2>1
<1>12. TypeOK'
  BY <1>1, <1>6, <1>9, <1>10, <1>11 DEF TypeOK, RInv, IInv, WasRead
<1>13. LastReadShows'
  <2> SUFFICES ASSUME "read" \notin Fails PROVE LastReadShows'
    BY DEF LastReadShows
  <2>1. ASSUME NEW k \in DOMAIN posted', posted'[k].file # "events", LatestOf(k)'
        PROVE  posted'[k].data = base'[posted'[k].file]
    <3>1. k + 1 \in DOMAIN posted
      BY <1>2
    <3>2. ASSUME NEW j \in DOMAIN posted, j > k + 1
          PROVE  posted[j].file # posted[k + 1].file
      <4>1. j - 1 \in DOMAIN posted' /\ j - 1 > k /\ (j - 1) + 1 = j
        BY <1>2, <3>2
      <4> QED BY <1>2, <2>1, <4>1 DEF LatestOf
    <3>3. LatestOf(k + 1)
      BY <3>2 DEF LatestOf
    <3> QED BY <1>1, <1>2, <2>1, <3>1, <3>3 DEF RInv, LastReadShows
  <2>2. ASSUME NEW g \in {"state", "status"}, NoneOf(g)', m.file = g
        PROVE  m.data = base[g]
    <3>1. ASSUME NEW j \in DOMAIN posted, j > 1
          PROVE  posted[j].file # g
      <4>1. j - 1 \in DOMAIN posted' /\ (j - 1) + 1 = j
        BY <1>2, <3>1
      <4> QED BY <1>2, <2>2, <4>1 DEF NoneOf
    <3>2. LatestOf(1)
      BY <1>2, <2>2, <3>1 DEF LatestOf
    <3> QED BY <1>2, <2>2, <3>2 DEF RInv, LastReadShows
  <2>3. ASSUME NEW g \in {"state", "status"}, NoneOf(g)', m.file # g
        PROVE  NoneOf(g)
    <3>1. ASSUME NEW j \in DOMAIN posted, j # 1
          PROVE  posted[j].file # g
      <4>1. j - 1 \in DOMAIN posted' /\ (j - 1) + 1 = j
        BY <1>2, <3>1
      <4> QED BY <1>2, <2>3, <4>1 DEF NoneOf
    <3> QED BY <1>2, <2>3, <3>1 DEF NoneOf
  <2>4. ASSUME "state" \in delivered', NoneOf("state")'
        PROVE  \/ stateShadow' = base'["state"]
               \/ TRUE \in Tails /\ stateShadow' = "unknown"
    <3>1. CASE m.file = "state"
      BY <1>1, <1>3, <1>7, <1>8, <2>2, <2>4, <3>1 DEF DecodeState
    <3>2. CASE m.file # "state"
      BY <1>1, <1>7, <2>3, <2>4, <3>2 DEF RInv, LastReadShows
    <3> QED BY <3>1, <3>2
  <2>5. ASSUME "status" \in delivered', NoneOf("status")'
        PROVE  \/ statusShadow' = base'["status"]
               \/ TRUE \in Tails /\ statusShadow' = "error"
    <3>1. CASE m.file = "status"
      BY <1>1, <1>3, <1>7, <1>8, <2>2, <2>5, <3>1 DEF DecodeStatus
    <3>2. CASE m.file # "status"
      BY <1>1, <1>7, <2>3, <2>5, <3>2 DEF RInv, LastReadShows
    <3> QED BY <3>1, <3>2
  <2> QED BY <2>1, <2>4, <2>5 DEF LastReadShows
<1> QED BY <1>5, <1>6, <1>10, <1>12, <1>13 DEF RInv

-----------------------------------------------------------------------------
\* Every step keeps the invariant.
LEMMA NextRInv == RInv /\ [Next]_vars => RInv'
<1> SUFFICES ASSUME RInv, [Next]_vars PROVE RInv'
  OBVIOUS
<1>1. IInv'
  BY WatcherSimulates, NextInv DEF RInv
<1>2. CASE UNCHANGED vars
  BY <1>1, <1>2
     DEF vars, watcherVars, regVars, RInv, TypeOK, ConstructedFirst, IInv,
         PowerGoodDefined, Registers, WasRead, LastReadShows, LatestOf, NoneOf
<1>3. CASE Construct BY <1>1, <1>3, ConstructStep
<1>4. CASE WatcherCall \/ WatcherThread \/ WatcherFails
  <2>1. WatcherPart' BY <1>4, MainPart, ThreadPart
  <2>2. TypeOK' BY <1>1, <1>4, <2>1, WatcherTypes
  <2>3. PowerGoodDefined' /\ ConstructedFirst'
    BY <1>4 DEF WatcherCall, WatcherThread, WatcherFails, regVars, RInv,
                PowerGoodDefined, ConstructedFirst
  <2> QED BY <1>1, <2>1, <2>2, <2>3 DEF RInv, WatcherPart
<1>5. CASE Handler BY <1>1, <1>5, HandlerStep
<1>6. CASE Evaluate \/ OtherSignal \/ Hardware BY <1>1, <1>6, OtherStep
<1> QED BY <1>2, <1>3, <1>4, <1>5, <1>6 DEF Next

\* The invariants of the watcher and of the regulator together.
THEOREM RegulatorInvariance == Spec => []RInv
<1> QED BY InitRInv, NextRInv, PTL DEF Spec

\* Types; an evaluation is queued among the handlers.
THEOREM RegulatorTypeCorrect == Spec => []TypeOK
<1>1. RInv => TypeOK BY DEF RInv
<1> QED BY <1>1, RegulatorInvariance, PTL

\* The regulator is a client of the watcher: what holds of the watcher for every
\* client holds here.
THEOREM ImplementsWatcher == Spec => WatcherSpec
<1>1. RInv /\ [Next]_vars => [WatcherNext]_watcherVars
  BY WatcherSimulates DEF RInv
<1>2. Init => WatcherInit
  BY DEF Init
<1> QED BY <1>1, <1>2, RegulatorInvariance, PTL DEF Spec, WatcherSpec

\* PowerGood is Enabled without Fault, whatever the files say and in whatever
\* order it arrives.
THEOREM PowerGoodTheorem == Spec => []PowerGoodDefined
<1>1. RInv => PowerGoodDefined BY DEF RInv
<1> QED BY <1>1, RegulatorInvariance, PTL

\* A shadow that a handler set is out of date only while another handler for the
\* file is on its way.
THEOREM ShadowTheorem == Spec => []ShadowsFollow
<1>1. RInv => ShadowsFollow
  <2> SUFFICES ASSUME RInv, "read" \notin Fails PROVE ShadowsFollow
    BY DEF ShadowsFollow
  <2>1. ASSUME NEW f \in delivered, ~Pending(f)
        PROVE  NoneOf(f) /\ content[f] = base[f]
    BY <2>1 DEF Pending, NoneOf, RInv, WasRead, IInv, NothingSwallowed
  <2> QED BY <2>1 DEF ShadowsFollow, RInv, LastReadShows, StateFresh,
                      StatusFresh, DecodeState, DecodeStatus
<1> QED BY <1>1, RegulatorInvariance, PTL

-----------------------------------------------------------------------------
(***************************************************************************)
(* At rest a regulator that is not wanted is off.  What the code reads is  *)
(* the state that was written and a status that tells it: the hardware     *)
(* changes its state only when it is told to, an enabled regulator never   *)
(* shows "off" and a disabled one nothing else, and no read fails, which   *)
(* would lose the change.  Data that is read with the memory behind it     *)
(* decodes to neither "disabled" nor "off", and what is unknown is written.*)
(***************************************************************************)
Behaves ==
  /\ ~Independent
  /\ "off" \notin StatusIn["enabled"]
  /\ StatusIn["disabled"] \subseteq {"off"}
  /\ "read" \notin Fails

\* Neither Apply nor the hardware leaves anything else.
OnOrOff ==
  /\ consumer \in {"enabled", "disabled"}
  /\ content["state"] \in {"enabled", "disabled"}

\* The constructor has set the signals, and they show the shadows since.
Constructed == {"state", "status", "exists", "events", "done"}
SignalsShow ==
  ctor \in Constructed => (enabled <=> Enabled(stateShadow, statusShadow))

\* Until the constructor returns no handler runs and nothing is written: what it
\* read of the state, and whether the status was "off", is so still.
Early == ctor # "done" \/ main # "idle"
ReadIsCurrent ==
  Early =>
    /\ dirty
    /\ delivered = {}
    /\ content["state"] = consumer
    /\ content["status"] \in StatusIn[consumer]
    /\ ctor \in Constructed \cup {"readState"} =>
         (statusShadow = "off" => content["status"] = "off")
    /\ ctor \in Constructed => stateShadow \in {content["state"], "unknown"}

\* Afterwards a file that was opened and changes is handled, for the first time
\* too: the dummy read, which swallows what it reads, was made before.
FirstArrives ==
  ~Early =>
    /\ "state" \in events \ delivered =>
         stateShadow \in {content["state"], "unknown"} \/ Pending("state")
    /\ "status" \in events \ delivered =>
         (statusShadow = "off" => content["status"] = "off" \/ Pending("status"))

\* An evaluation that writes nothing though _On is low saw a shadow that says
\* disabled, and then _Enabled is low, until a change of it is queued.
LowIsApplied == ~dirty /\ ~on => consumer = "disabled" \/ ~enabled

OffInv == OnOrOff /\ SignalsShow /\ ReadIsCurrent /\ FirstArrives /\ LowIsApplied

\* What the hardware shows when the constructor reads it.
LEMMA OffInit == Behaves /\ Init => OffInv
BY RegulatorAssumption
   DEF Init, WatcherInit, OffInv, OnOrOff, SignalsShow, ReadIsCurrent,
       FirstArrives, LowIsApplied, Early, Constructed

\* The constructor: what it reads is so when it returns.
LEMMA OffConstruct ==
  ASSUME RInv, Behaves, OffInv, Construct
  PROVE  OffInv'
<1> USE DEF OffInv
<1>1. /\ UNCHANGED <<delivered, consumer, on, events, posted>>
      /\ ctor # "done" /\ Early
  BY DEF Construct, FindSysfs, ReadStatus, ReadState, WatchState, WatchStatus,
         NoEvents, ReadEvents, ReadEventsFails, WatchEvents, watcherVars,
         Register, Call, ReadElsewhere, Early
<1>2. content'["state"] = content["state"] /\ content'["status"] = content["status"]
  <2>1. CASE UNCHANGED content BY <2>1
  <2>2. CASE ReadEvents
    BY <2>2, RegulatorAssumption
       DEF ReadEvents, ReadElsewhere, RInv, TypeOK, WatcherTypeOK
  <2> QED BY <2>1, <2>2
          DEF Construct, FindSysfs, ReadStatus, ReadState, WatchState,
              WatchStatus, NoEvents, ReadEventsFails, WatchEvents, watcherVars,
              Register, Call
<1>3. /\ dirty /\ delivered = {} /\ content["state"] = consumer
      /\ content["status"] \in StatusIn[consumer]
      /\ ctor \in Constructed \cup {"readState"} =>
           (statusShadow = "off" => content["status"] = "off")
      /\ ctor \in Constructed => stateShadow \in {content["state"], "unknown"}
  BY <1>1 DEF ReadIsCurrent
<1>4. OnOrOff'
  BY <1>1, <1>2 DEF OnOrOff
<1>5. CASE FindSysfs
  BY <1>1, <1>2, <1>3, <1>4, <1>5
     DEF FindSysfs, Early, SignalsShow, ReadIsCurrent, FirstArrives,
         LowIsApplied, Constructed
<1>6. CASE ReadStatus
  BY <1>1, <1>2, <1>3, <1>4, <1>6
     DEF ReadStatus, ReadLine, Early, SignalsShow, ReadIsCurrent, FirstArrives,
         LowIsApplied, Constructed
<1>7. CASE ReadState
  <2>1. /\ ctor = "readState" /\ ctor' = "state"
        /\ stateShadow' \in ReadLine("state", "unknown")
        /\ statusShadow' = statusShadow
        /\ enabled' = Enabled(stateShadow', statusShadow)
        /\ dirty'
    BY <1>3, <1>7 DEF ReadState, DecodeStatesSysfs
  <2>2. SignalsShow'
    BY <2>1 DEF SignalsShow, Enabled
  <2>3. stateShadow' \in {content["state"], "unknown"}
    BY <2>1 DEF ReadLine
  <2> QED BY <1>1, <1>2, <1>3, <1>4, <2>1, <2>2, <2>3
          DEF Early, ReadIsCurrent, FirstArrives, LowIsApplied, Constructed
<1>8. CASE \/ WatchState \/ WatchStatus \/ NoEvents \/ ReadEvents
           \/ ReadEventsFails \/ WatchEvents
  <2>1. /\ ctor \in Constructed
        /\ UNCHANGED <<stateShadow, statusShadow, signalVars, dirty>>
    BY <1>8 DEF WatchState, WatchStatus, NoEvents, ReadEvents, ReadEventsFails,
                WatchEvents, Constructed
  <2>2. SignalsShow'
    BY <2>1 DEF SignalsShow, Enabled
  <2>3. ReadIsCurrent'
    BY <1>1, <1>2, <1>3, <2>1 DEF ReadIsCurrent
  <2>4. FirstArrives' /\ LowIsApplied'
    BY <1>1, <1>2, <1>3, <2>1 DEF FirstArrives, LowIsApplied
  <2> QED BY <1>4, <2>2, <2>3, <2>4
<1> QED BY <1>5, <1>6, <1>7, <1>8 DEF Construct

\* The watcher: what is on its way arrives.
LEMMA OffWatcher ==
  ASSUME RInv, Behaves, OffInv, WatcherCall \/ WatcherThread \/ WatcherFails
  PROVE  OffInv'
<1> USE DEF OffInv
<1>1. /\ ctor' = ctor /\ UNCHANGED <<stateShadow, statusShadow, on, signalVars>>
      /\ dirty' = dirty /\ consumer' = consumer /\ delivered' = delivered
  BY DEF WatcherCall, WatcherThread, WatcherFails, regVars
<1>2. content'["state"] = content["state"] /\ content'["status"] = content["status"]
  <2>1. CASE UNCHANGED content BY <2>1
  <2>2. CASE \E f \in File : content' = [content EXCEPT ![f] = AfterRead(f)]
    BY <2>2, RegulatorAssumption DEF AfterRead, RInv, TypeOK, WatcherTypeOK
  <2> QED BY <2>1, <2>2
          DEF WatcherCall, WatcherThread, WatcherFails, MainStep, ThreadStep,
              ThreadFails, Joined, OpenFails, Opened, Closed, Started,
              DummyRead, ReadFile, ReadFails, Read, BeginLoop, Poll, PollFails
<1>3. OnOrOff' /\ SignalsShow' /\ LowIsApplied'
  BY <1>1, <1>2 DEF OnOrOff, SignalsShow, LowIsApplied, Enabled
<1>4. Early' => Early
  BY <1>1 DEF WatcherCall, WatcherThread, WatcherFails, MainStep, ThreadStep,
              ThreadFails, Joined, OpenFails, Opened, Closed, Started,
              DummyRead, ReadFile, ReadFails, BeginLoop, Poll, PollFails, Early
<1>5. ReadIsCurrent'
  BY <1>1, <1>2, <1>4 DEF ReadIsCurrent
<1>6. FirstArrives'
  <2>1. CASE Early
    <3>1. ~Early' => ctor \in Constructed
      BY <1>1 DEF Early, Constructed
    <3> QED BY <1>1, <1>2, <2>1, <3>1 DEF ReadIsCurrent, FirstArrives
  <2>2. CASE ~Early
    <3>1. main = "idle" /\ thread # "starting"
      BY <2>2 DEF Early, RInv, IInv, Handshake
    <3>2. events' = events /\ \A g \in File : Pending(g) => Pending(g)'
      <4>1. CASE UNCHANGED <<events, notified, posted>>
        BY <4>1 DEF Pending
      <4>2. ASSUME NEW f \in File, ReadFile(f)
            PROVE  events' = events /\ \A g \in File : Pending(g) => Pending(g)'
        <5>1. PICK x \in Posted : posted' = Append(posted, x) /\ x.file = f
          BY <4>2, WatcherAssumption
             DEF ReadFile, Posted, RInv, IInv, WatcherTypeOK
        <5>2. /\ posted \in Seq(Posted) /\ DOMAIN posted = 1..Len(posted)
              /\ Len(posted) \in Nat
          BY DEF RInv, IInv, WatcherTypeOK
        <5>3. /\ \A k \in DOMAIN posted : k \in DOMAIN posted'
                                          /\ posted'[k] = posted[k]
              /\ Len(posted) + 1 \in DOMAIN posted'
              /\ posted'[Len(posted) + 1].file = f
          BY <5>1, <5>2
        <5>4. Pending(f)'
          BY <5>3 DEF Pending
        <5>5. ASSUME NEW g \in File, Pending(g), g # f
              PROVE  Pending(g)'
          BY <4>2, <5>3, <5>5 DEF Pending, ReadFile, Read
        <5> QED BY <4>2, <5>4, <5>5 DEF ReadFile
      <4> QED BY <3>1, <4>1, <4>2
              DEF Behaves, WatcherCall, WatcherThread, WatcherFails, MainStep,
                  ThreadStep, ThreadFails, Joined, OpenFails, Opened, Closed,
                  Started, DummyRead, ReadFails, BeginLoop, Poll, PollFails
    <3> QED BY <1>1, <1>2, <2>2, <3>2, RegulatorAssumption DEF FirstArrives
  <2> QED BY <2>1, <2>2
<1> QED BY <1>3, <1>5, <1>6

\* A handler: the file it is of was read, others are still on their way.
LEMMA OffHandler ==
  ASSUME RInv, Behaves, OffInv, Handler
  PROVE  OffInv'
<1> DEFINE m == Head(posted)
<1> USE DEF OffInv, RunHandler
<1>1. /\ posted \in Seq(Posted) /\ posted # <<>> /\ posted' = Tail(posted)
      /\ UNCHANGED <<events, notified, content, ctor, main, on, consumer>>
      /\ delivered' = delivered \cup {m.file}
      /\ ctor = "done" /\ main = "idle"
  BY DEF Handler, RInv, IInv, WatcherTypeOK
<1>2. /\ Len(posted) \in Nat \ {0}
      /\ DOMAIN posted = 1..Len(posted) /\ DOMAIN posted' = 1..(Len(posted) - 1)
      /\ \A k \in DOMAIN posted' : posted'[k] = posted[k + 1]
      /\ m = posted[1] /\ 1 \in DOMAIN posted
  BY <1>1
<1>3. OnOrOff' /\ ReadIsCurrent'
  BY <1>1 DEF OnOrOff, ReadIsCurrent, Early
<1>4. /\ enabled' = Enabled(stateShadow', statusShadow')
      /\ dirty' = \/ dirty
                  \/ signalVars' # signalVars
                  \/ eventsShadow' = "failure" /\ (powergood \/ ~fault)
  BY DEF Handler, DecodeStatesSysfs
<1>5. SignalsShow'
  BY <1>4 DEF SignalsShow, Enabled
<1>6. LowIsApplied'
  BY <1>1, <1>4 DEF LowIsApplied
<1>7. ASSUME NEW g, g # m.file, Pending(g)
      PROVE  Pending(g)'
  <2>1. CASE g \in notified
    BY <1>1, <2>1 DEF Pending
  <2>2. CASE g \notin notified
    <3>1. PICK k \in DOMAIN posted : posted[k].file = g
      BY <1>7, <2>2 DEF Pending
    <3>2. k - 1 \in DOMAIN posted' /\ (k - 1) + 1 = k
      BY <1>2, <1>7, <3>1
    <3>3. posted'[k - 1].file = g
      BY <1>2, <3>1, <3>2
    <3> QED BY <3>2, <3>3 DEF Pending
  <2> QED BY <2>1, <2>2
<1>8. FirstArrives'
  <2>1. ASSUME "state" \in events' \ delivered'
        PROVE  stateShadow' \in {content'["state"], "unknown"} \/ Pending("state")'
    <3>1. "state" # m.file /\ "state" \in events \ delivered
      BY <1>1, <2>1
    <3>2. stateShadow' = stateShadow
      BY <3>1 DEF Handler
    <3>3. stateShadow \in {content["state"], "unknown"} \/ Pending("state")
      BY <1>1, <3>1 DEF FirstArrives, Early
    <3> QED BY <1>1, <1>7, <3>1, <3>2, <3>3
  <2>2. ASSUME "status" \in events' \ delivered', statusShadow' = "off"
        PROVE  content'["status"] = "off" \/ Pending("status")'
    <3>1. "status" # m.file /\ "status" \in events \ delivered
      BY <1>1, <2>2
    <3>2. statusShadow' = statusShadow
      BY <3>1 DEF Handler
    <3>3. content["status"] = "off" \/ Pending("status")
      BY <1>1, <2>2, <3>1, <3>2 DEF FirstArrives, Early
    <3> QED BY <1>1, <1>7, <3>1, <3>3
  <2> QED BY <2>1, <2>2 DEF FirstArrives
<1> QED BY <1>3, <1>5, <1>6, <1>8

\* An evaluation: Apply writes, or leaves a regulator alone that shows disabled.
LEMMA OffEvaluate ==
  ASSUME RInv, Behaves, OffInv, Evaluate
  PROVE  OffInv'
<1> USE DEF OffInv
<1>1. /\ ctor = "done" /\ main = "idle" /\ ~Early
      /\ UNCHANGED <<ctor, main, content, events, notified, posted, delivered,
                     stateShadow, statusShadow, enabled>>
      /\ on' \in BOOLEAN
      /\ Apply(on')
  BY DEF Evaluate, watcherVars, Early
<1>2. consumer' \in {"enabled", "disabled"}
  BY <1>1 DEF Apply, OnOrOff
<1>3. OnOrOff' /\ SignalsShow' /\ ReadIsCurrent'
  BY <1>1, <1>2 DEF OnOrOff, SignalsShow, ReadIsCurrent, Early, Enabled
<1>4. FirstArrives'
  BY <1>1 DEF FirstArrives, Early, Pending
<1>5. LowIsApplied'
  <2> SUFFICES ASSUME ~on'
               PROVE  consumer' = "disabled" \/ ~enabled
    BY <1>1 DEF LowIsApplied
  <2>1. CASE stateShadow = "disabled"
    <3>1. ~Enabled(stateShadow, statusShadow)
      BY <2>1 DEF Enabled
    <3> QED BY <1>1, <3>1 DEF SignalsShow, Constructed
  <2>2. CASE stateShadow # "disabled"
    BY <1>1, <2>2 DEF Apply
  <2> QED BY <2>1, <2>2
<1> QED BY <1>3, <1>4, <1>5

\* Another signal, and the hardware: what it changes of an open file is on its
\* way.
LEMMA OffOther ==
  ASSUME RInv, Behaves, OffInv, OtherSignal \/ Hardware
  PROVE  OffInv'
<1> USE DEF OffInv
<1>1. /\ UNCHANGED <<events, posted, delivered, main, stateShadow, statusShadow,
                     signalVars, ctor, on, consumer>>
      /\ Early' <=> Early
  BY DEF OtherSignal, Hardware, StateChanges, StatusChanges, Failure,
         watcherVars, regVars, Change, Early
<1>2. SignalsShow'
  BY <1>1 DEF SignalsShow, Enabled
<1>3. CASE OtherSignal
  <2>1. UNCHANGED <<content, notified>> /\ dirty' /\ ~Early
    BY <1>3 DEF OtherSignal, watcherVars, Early
  <2> QED BY <1>1, <1>2, <2>1
          DEF OnOrOff, ReadIsCurrent, FirstArrives, LowIsApplied, Pending
<1>4. content \in [File -> Content] /\ File = {"state", "status", "events"}
  BY RegulatorAssumption DEF RInv, IInv, WatcherTypeOK
<1>5. Hardware => LowIsApplied' /\ dirty' = dirty
  BY <1>1 DEF Hardware, StateChanges, StatusChanges, Failure, regVars,
              LowIsApplied
<1>6. CASE StateChanges
  <2>1. /\ content' = [content EXCEPT !["state"] = consumer]
        /\ consumer # content["state"]
        /\ notified' = notified \cup ({"state"} \cap events)
    BY <1>6 DEF StateChanges, Change, Behaves
  <2>2. ~Early
    BY <2>1 DEF ReadIsCurrent
  <2>3. /\ content'["state"] = consumer
        /\ content'["status"] = content["status"]
    BY <1>4, <2>1
  <2>4. \A g : Pending(g) => Pending(g)'
    BY <1>1, <2>1 DEF Pending
  <2>5. "state" \in events => Pending("state")'
    BY <2>1 DEF Pending
  <2>6. OnOrOff'
    BY <1>1, <2>3 DEF OnOrOff
  <2>7. FirstArrives'
    BY <1>1, <2>2, <2>3, <2>4, <2>5 DEF FirstArrives
  <2> QED BY <1>1, <1>2, <1>5, <1>6, <2>2, <2>6, <2>7
          DEF Hardware, ReadIsCurrent
<1>7. CASE StatusChanges
  <2>1. PICK v \in StatusIn[content["state"]] :
          /\ content' = [content EXCEPT !["status"] = v]
          /\ v # content["status"]
          /\ notified' = notified \cup ({"status"} \cap events)
    BY <1>7 DEF StatusChanges, Change
  <2>2. /\ content'["state"] = content["state"]
        /\ content'["status"] = v
    BY <1>4, <2>1
  <2>3. \A g : Pending(g) => Pending(g)'
    BY <1>1, <2>1 DEF Pending
  <2>4. "status" \in events => Pending("status")'
    BY <2>1 DEF Pending
  <2>5. OnOrOff'
    BY <1>1, <2>2 DEF OnOrOff
  <2>6. FirstArrives'
    BY <1>1, <2>2, <2>3, <2>4 DEF FirstArrives
  <2>7. ReadIsCurrent'
    <3> SUFFICES ASSUME Early
                 PROVE  ReadIsCurrent'
      BY <1>1 DEF ReadIsCurrent
    <3>1. /\ dirty /\ delivered = {} /\ content["state"] = consumer
          /\ content["status"] \in StatusIn[consumer]
          /\ ctor \in Constructed \cup {"readState"} =>
               (statusShadow = "off" => content["status"] = "off")
          /\ ctor \in Constructed => stateShadow \in {content["state"], "unknown"}
      BY DEF ReadIsCurrent
    <3>2. content["status"] # "off"
      <4> SUFFICES ASSUME content["status"] = "off"
                   PROVE  FALSE
        OBVIOUS
      <4>1. consumer = "disabled"
        BY <3>1 DEF Behaves, OnOrOff
      <4> QED BY <2>1, <3>1, <4>1 DEF Behaves
    <3> QED BY <1>1, <1>5, <1>7, <2>1, <2>2, <3>1, <3>2
            DEF Hardware, ReadIsCurrent
  <2> QED BY <1>2, <1>5, <1>7, <2>5, <2>6, <2>7 DEF Hardware
<1>8. CASE Failure
  <2>1. /\ content' = [content EXCEPT !["events"] = "failure"]
        /\ notified' = notified \cup ({"events"} \cap events)
    BY <1>8 DEF Failure, Change
  <2>2. /\ content'["state"] = content["state"]
        /\ content'["status"] = content["status"]
    BY <1>4, <2>1
  <2>3. \A g : Pending(g) => Pending(g)'
    BY <1>1, <2>1 DEF Pending
  <2>4. OnOrOff' /\ FirstArrives'
    BY <1>1, <2>2, <2>3 DEF OnOrOff, FirstArrives
  <2>5. ReadIsCurrent'
    BY <1>1, <1>5, <1>8, <2>2 DEF Hardware, ReadIsCurrent
  <2> QED BY <1>2, <1>5, <1>8, <2>4, <2>5 DEF Hardware
<1> QED BY <1>3, <1>6, <1>7, <1>8 DEF Hardware

\* Nothing is on its way: the signals show what was written.
LEMMA OffShows ==
  ASSUME RInv, Behaves, OffInv
  PROVE  OffIsApplied
<1> SUFFICES ASSUME AtRest, {"state", "status"} \subseteq events, ~on,
                    consumer = "enabled"
             PROVE  FALSE
  BY DEF OffIsApplied, OffInv, OnOrOff
<1>1. /\ ctor = "done" /\ ~Early /\ ~dirty
      /\ content["state"] = "enabled" /\ content["status"] # "off"
      /\ \A g : ~Pending(g)
  BY DEF AtRest, Early, Behaves, Pending
<1>2. ~Enabled(stateShadow, statusShadow)
  BY <1>1 DEF OffInv, LowIsApplied, SignalsShow, Constructed
<1>3. \A g \in delivered : NoneOf(g) /\ content[g] = base[g]
  BY <1>1 DEF Pending, NoneOf, RInv, WasRead, IInv, NothingSwallowed
<1>4. stateShadow # "disabled"
  <2>1. CASE "state" \in delivered
    BY <1>1, <1>3, <2>1 DEF RInv, LastReadShows, Behaves
  <2>2. CASE "state" \notin delivered
    BY <1>1, <2>2 DEF OffInv, FirstArrives
  <2> QED BY <2>1, <2>2
<1>5. statusShadow # "off"
  <2>1. CASE "status" \in delivered
    BY <1>1, <1>3, <2>1 DEF RInv, LastReadShows, Behaves
  <2>2. CASE "status" \notin delivered
    BY <1>1, <2>2 DEF OffInv, FirstArrives
  <2> QED BY <2>1, <2>2
<1> QED BY <1>2, <1>4, <1>5 DEF Enabled

\* Every step keeps it.
LEMMA OffNext == Behaves /\ RInv /\ OffInv /\ [Next]_vars => OffInv'
<1> SUFFICES ASSUME Behaves, RInv, OffInv, [Next]_vars PROVE OffInv'
  OBVIOUS
<1>1. CASE UNCHANGED vars
  BY <1>1 DEF vars, watcherVars, regVars, OffInv, OnOrOff, SignalsShow, Enabled,
              ReadIsCurrent, FirstArrives, LowIsApplied, Early, Pending
<1>2. CASE Construct BY <1>2, OffConstruct
<1>3. CASE WatcherCall \/ WatcherThread \/ WatcherFails BY <1>3, OffWatcher
<1>4. CASE Handler BY <1>4, OffHandler
<1>5. CASE Evaluate BY <1>5, OffEvaluate
<1>6. CASE OtherSignal \/ Hardware BY <1>6, OffOther
<1> QED BY <1>1, <1>2, <1>3, <1>4, <1>5, <1>6 DEF Next

\* A regulator that behaves is off at rest when _On is low, if both its files could
\* be opened, whatever was on its way when Apply decided to write nothing.
THEOREM OffTheorem ==
  ASSUME Behaves
  PROVE  Spec => []OffIsApplied
<1>1. Init => OffInv
  BY OffInit
<1>2. RInv /\ OffInv /\ [Next]_vars => OffInv'
  BY OffNext
<1>3. RInv /\ OffInv => OffIsApplied
  BY OffShows
<1> QED BY <1>1, <1>2, <1>3, RegulatorInvariance, PTL DEF Spec
=============================================================================
