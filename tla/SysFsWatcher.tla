---------------------------- MODULE SysFsWatcher ----------------------------
(***************************************************************************)
(* The sysfs watcher (src/SysFsWatcher.cpp): a thread polls attribute      *)
(* files and posts a handler with the data it read to the io_context of    *)
(* the main thread.  To register or unregister a file the main thread      *)
(* stops the watcher thread, changes the map of files and starts another.  *)
(*                                                                         *)
(* A file is a pseudo file of the kernel.  Each change of one is notified; *)
(* poll reports an open descriptor as long as it was not read from its     *)
(* start since.  A read at the end of the file, which every dummy read of  *)
(* a descriptor but the first is, returns nothing and clears nothing.      *)
(***************************************************************************)
EXTENDS Sequences, Naturals, FiniteSets

CONSTANTS File,         \* the attribute files
          Content,      \* what they can hold
          ClearOnRead,  \* files that are cleared when read: events
          Cleared,      \* what they hold then
          Tails,        \* may data be followed by other characters?
          Fails,        \* system calls that may fail
          MaxPending    \* bound: no file changes above it

ASSUME WatcherAssumption ==
  /\ ClearOnRead \subseteq File
  /\ Cleared \in Content
  /\ Tails \subseteq BOOLEAN
  /\ Fails \subseteq {"open", "pipe", "poll", "read"}
  /\ MaxPending \in Nat

VARIABLES events,    \* SysFsWatcher::events, the registered files
          thread,    \* the watcher thread; "none" when controlFd is -1
          watched,   \* its pollfd array
          toRead,    \* the descriptors poll reported, not yet read
          stopByte,  \* the control pipe holds a byte
          main,      \* where the main thread is in Register or Unregister
          request,   \* the call it is in
          posted,    \* handlers in the io_context
          content,   \* external: what each file holds
          notified,  \* external: open files that changed since they were read
          unread,    \* external: open files that were never read
          base       \* history: what a file held after the thread tried last
                     \* to read it from its start

mainVars == <<main, request>>
threadVars == <<thread, watched, toRead>>
fileVars == <<content, notified, unread, base>>
watcherVars == <<events, threadVars, stopByte, mainVars, posted, fileVars>>

Posted == [file : File, data : Content, tail : BOOLEAN]

\* The pollfd array is the map of files whenever the thread polls.
WatcherTypeOK ==
  /\ events \in SUBSET File
  /\ thread \in {"none", "starting", "polling", "reading", "ended"}
  /\ watched \in SUBSET events
  /\ toRead \in SUBSET watched
  /\ thread \in {"polling", "reading"} => watched = events
  /\ stopByte \in BOOLEAN
  /\ main \in {"idle", "joining", "changing", "starting"}
  /\ request \in [call : {"Register", "Unregister"}, file : File]
  /\ posted \in Seq(Posted)
  /\ content \in [File -> Content]
  /\ notified \in SUBSET events
  /\ unread \in SUBSET events
  /\ base \in [File -> Content]

WatcherInit ==
  /\ events = {}
  /\ thread = "none"
  /\ watched = {}
  /\ toRead = {}
  /\ stopByte = FALSE
  /\ main = "idle"
  /\ request \in [call : {"Register"}, file : File]
  /\ posted = <<>>
  /\ content \in [File -> Content]
  /\ notified = {}
  /\ unread = {}
  /\ base = content

-----------------------------------------------------------------------------
(* The files, as the kernel provides them.                                 *)

AfterRead(f) == IF f \in ClearOnRead THEN Cleared ELSE content[f]

\* Pending work is bounded, so that the queue is.
Change(f, v) ==
  /\ v # content[f]
  /\ Len(posted) + Cardinality(notified) < MaxPending
  /\ content' = [content EXCEPT ![f] = v]
  /\ notified' = notified \cup ({f} \cap events)
  /\ UNCHANGED <<events, threadVars, stopByte, mainVars, posted, unread, base>>

\* A read from the start of f, on the watcher's descriptor.
Read(f) ==
  /\ content' = [content EXCEPT ![f] = AfterRead(f)]
  /\ notified' = notified \ {f}
  /\ unread' = unread \ {f}
  /\ base' = [base EXCEPT ![f] = AfterRead(f)]

\* f is read through another descriptor, before it is registered.
ReadElsewhere(f) ==
  /\ f \notin events
  /\ content' = [content EXCEPT ![f] = AfterRead(f)]
  /\ UNCHANGED <<events, threadVars, stopByte, mainVars, posted, notified,
                 unread, base>>

-----------------------------------------------------------------------------
(* The main thread.                                                        *)

\* A mutant of Stop: it does not wait for the thread.
StopNoJoin ==
  /\ stopByte' = (thread # "none")
  /\ main' = "changing"

\* Stop: if there is a thread write a byte to the control pipe, then wait.
Stop ==
  /\ stopByte' = (thread # "none")
  /\ main' = IF thread = "none" THEN "changing" ELSE "joining"

\* Register and Unregister begin with Stop.
Call(call, f) ==
  /\ main = "idle"
  /\ request' = [call |-> call, file |-> f]
  /\ Stop
  /\ UNCHANGED <<events, threadVars, posted, fileVars>>

Register(f) == f \notin events /\ Call("Register", f)
Unregister(f) == Call("Unregister", f)

Joined ==
  /\ main = "joining"
  /\ thread = "ended"
  /\ thread' = "none"
  /\ stopByte' = FALSE
  /\ main' = "changing"
  /\ UNCHANGED <<events, watched, toRead, request, posted, fileVars>>

\* Start: the map is complete; without a pipe there is no thread.
Start ==
  \/ /\ thread' = "starting"
     /\ main' = "starting"
  \/ /\ "pipe" \in Fails
     /\ main' = "idle"
     /\ UNCHANGED thread

\* Register returns without Start when the file cannot be opened.
OpenFails ==
  /\ main = "changing"
  /\ request.call = "Register"
  /\ "open" \in Fails
  /\ main' = "idle"
  /\ UNCHANGED <<events, threadVars, stopByte, request, posted, fileVars>>

Opened ==
  /\ main = "changing"
  /\ request.call = "Register"
  /\ events' = events \cup {request.file}
  /\ unread' = unread \cup {request.file}
  /\ Start
  /\ UNCHANGED <<watched, toRead, stopByte, request, posted, content, notified,
                 base>>

Closed ==
  /\ main = "changing"
  /\ request.call = "Unregister"
  /\ events' = events \ {request.file}
  /\ notified' = notified \ {request.file}
  /\ unread' = unread \ {request.file}
  /\ Start
  /\ UNCHANGED <<watched, toRead, stopByte, request, posted, content, base>>

\* The byte in the status pipe: the thread is up.
Started ==
  /\ main = "starting"
  /\ thread # "starting"
  /\ main' = "idle"
  /\ UNCHANGED <<events, threadVars, stopByte, request, posted, fileVars>>

\* io_context::run takes the next handler.
RunHandler ==
  /\ main = "idle"
  /\ posted # <<>>
  /\ posted' = Tail(posted)
  /\ UNCHANGED <<events, threadVars, stopByte, mainVars, fileVars>>

MainStep == Joined \/ OpenFails \/ Opened \/ Closed \/ Started

-----------------------------------------------------------------------------
(* The watcher thread, SysFsWatcher::Main.                                 *)

\* A mutant of DummyRead: it reads from the start every time.
DummyReadAgain(f) ==
  /\ thread = "starting"
  /\ f \in events \ watched
  /\ watched' = watched \cup {f}
  /\ notified' = notified \ {f}
  /\ unread' = unread \ {f}
  /\ UNCHANGED <<events, thread, toRead, stopByte, mainVars, posted, content,
                 base>>

\* A descriptor is entered in the pollfd array and read once, which only finds
\* something to read when the descriptor is new.
DummyRead(f) ==
  /\ thread = "starting"
  /\ f \in events \ watched
  /\ watched' = watched \cup {f}
  /\ IF f \in unread THEN Read(f) ELSE UNCHANGED fileVars
  /\ UNCHANGED <<events, thread, toRead, stopByte, mainVars, posted>>

\* The byte is written to the status pipe and the loop entered.
BeginLoop ==
  /\ thread = "starting"
  /\ watched = events
  /\ thread' = "polling"
  /\ UNCHANGED <<events, watched, toRead, stopByte, mainVars, posted, fileVars>>

\* A mutant of Poll: the byte is left until there is no file to read.
PollFilesFirst ==
  /\ thread = "polling"
  /\ toRead' = watched \cap notified
  /\ \/ toRead' # {} /\ thread' = "reading" /\ UNCHANGED <<watched, stopByte>>
     \/ toRead' = {} /\ stopByte /\ thread' = "ended" /\ watched' = {} /\ stopByte' = FALSE
  /\ UNCHANGED <<events, mainVars, posted, fileVars>>

\* poll returns.  A byte in the control pipe ends the thread, whatever else
\* there is to read.
Poll ==
  /\ thread = "polling"
  /\ \/ /\ stopByte
        /\ thread' = "ended"
        /\ watched' = {}
        /\ stopByte' = FALSE
        /\ UNCHANGED toRead
     \/ /\ ~stopByte
        /\ toRead' = watched \cap notified
        /\ toRead' # {}
        /\ thread' = "reading"
        /\ UNCHANGED <<watched, stopByte>>
  /\ UNCHANGED <<events, mainVars, posted, fileVars>>

PollFails ==
  /\ thread = "polling"
  /\ "poll" \in Fails
  /\ thread' = "ended"
  /\ watched' = {}
  /\ UNCHANGED <<events, toRead, stopByte, mainVars, posted, fileVars>>

NextRead(f) ==
  /\ thread = "reading"
  /\ f \in toRead
  /\ toRead' = toRead \ {f}
  /\ thread' = IF toRead' = {} THEN "polling" ELSE "reading"

\* A reported file is read and its handler posted with the data.  The data is
\* not terminated: SysFsEvent::data is never initialised, and what the memory
\* held may follow.
ReadFile(f) ==
  /\ NextRead(f)
  /\ Read(f)
  /\ \E t \in Tails :
       posted' = Append(posted, [file |-> f, data |-> content[f], tail |-> t])
  /\ UNCHANGED <<events, watched, stopByte, mainVars>>

\* Without data no handler is posted; the notification is gone all the same.
ReadFails(f) ==
  /\ "read" \in Fails
  /\ NextRead(f)
  /\ notified' = notified \ {f}
  /\ base' = [base EXCEPT ![f] = content[f]]
  /\ UNCHANGED <<events, watched, stopByte, mainVars, posted, content, unread>>

ThreadStep ==
  \/ \E f \in File : DummyRead(f) \/ ReadFile(f)
  \/ BeginLoop
  \/ Poll

ThreadFails == PollFails \/ \E f \in File : ReadFails(f)

-----------------------------------------------------------------------------
\* Any client: it registers and unregisters files and runs handlers.
WatcherNext ==
  \/ \E f \in File : Register(f) \/ Unregister(f) \/ ReadElsewhere(f)
  \/ MainStep
  \/ RunHandler
  \/ ThreadStep \/ ThreadFails
  \/ \E f \in File, v \in Content : Change(f, v)

WatcherSpec == WatcherInit /\ [][WatcherNext]_watcherVars

\* The operating system runs both threads.  Nothing has to fail.
ThreadFairness == WF_watcherVars(ThreadStep) /\ WF_watcherVars(MainStep)
FairWatcherSpec == WatcherSpec /\ ThreadFairness

-----------------------------------------------------------------------------
\* The map of files has no lock.  It is safe because the main thread changes
\* it only while there is no other thread.
NoRace == [][events' # events => thread = "none"]_watcherVars

\* No change is swallowed.  A file that is registered and was read once holds
\* what was read last, and except for the first time and for a read that fails
\* was posted then, or the next poll reports it: neither the dummy reads of a
\* restart, nor a read of several files at a time, nor the end of a thread that
\* was just told to read loses a change.
NothingSwallowed ==
  \A f \in events \ unread : content[f] = base[f] \/ f \in notified

\* Register and Unregister return: the thread takes the byte although files keep
\* changing and there is always one to read, ends, and another comes up.
CallReturns == main # "idle" ~> main = "idle"
=============================================================================
