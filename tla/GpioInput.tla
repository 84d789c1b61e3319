----------------------------- MODULE GpioInput -----------------------------
(***************************************************************************)
(* A GPIO input (src/GpioInput.cpp): it follows a line by the edges the    *)
(* kernel reports.                                                         *)
(*                                                                         *)
(* The constructor requests the edges, arms the wait for the first one and *)
(* posts a handler that reads the line once.  From the request on the      *)
(* kernel queues edges, so the posted read may return a level newer than   *)
(* edges that are handled after it.                                        *)
(***************************************************************************)
EXTENDS TimedSignal, Sequences

CONSTANT KernelCapacity  \* edges the kernel queues for a line (16 in Linux)

ASSUME KernelAssumption == KernelCapacity \in Nat \ {0}

VARIABLES line,     \* the level of the line, as gpiod reports it
          events,   \* edges queued by the kernel, TRUE is a rising one
          initial,  \* the posted read of the level has not run yet
          waiting,  \* an async_wait is armed
          dropped,  \* the kernel dropped an edge
          unseen    \* changes of the line less changes of the signal,
                    \* 0 from the first dropped edge on

gpioVars == <<line, events, initial, waiting, dropped, unseen>>

GpioTypeOK ==
  /\ line \in BOOLEAN
  /\ events \in Seq(BOOLEAN)
  /\ Len(events) <= KernelCapacity
  /\ initial \in BOOLEAN
  /\ waiting \in BOOLEAN
  /\ dropped \in BOOLEAN
  /\ unseen \in Int

\* The signal is created low: a line that is high has a change to be seen.
GpioInit ==
  /\ line \in BOOLEAN
  /\ events = <<>>
  /\ initial = TRUE
  /\ waiting = TRUE
  /\ dropped = FALSE
  /\ unseen = IF line THEN 1 ELSE 0

-----------------------------------------------------------------------------
\* The line changes and the kernel queues the edge, if there is room.
Edge ==
  /\ line' = ~line
  /\ IF Len(events) < KernelCapacity
     THEN events' = Append(events, ~line) /\ UNCHANGED dropped
     ELSE dropped' = TRUE /\ UNCHANGED events
  /\ unseen' = IF dropped' THEN 0 ELSE unseen + 1
  /\ UNCHANGED <<initial, waiting>>

\* The signal takes a level.
Take(newLevel) ==
  /\ SetLevel(newLevel)
  /\ unseen' = IF active = newLevel \/ dropped THEN unseen ELSE unseen - 1

\* Mutants of InitialRead: the wait is armed in it instead of before it, and
\* edges reported until then are discarded; the level read is the one of the
\* request.
InitialReadDrains ==
  /\ initial
  /\ Take(IF events = <<>> THEN line ELSE Head(events))
  /\ initial' = FALSE
  /\ events' = <<>>
  /\ UNCHANGED <<line, waiting, dropped>>

InitialReadInverted ==
  /\ initial
  /\ Take(~line)
  /\ initial' = FALSE
  /\ UNCHANGED <<line, events, waiting, dropped>>

\* The handler posted by the constructor: set the level the line has now.
InitialRead ==
  /\ initial
  /\ Take(line)
  /\ initial' = FALSE
  /\ UNCHANGED <<line, events, waiting, dropped>>

\* The handler of WaitForGPIOEvent: read one edge, set its level, wait again.
OnEvent ==
  /\ waiting
  /\ events # <<>>
  /\ Take(Head(events))
  /\ events' = Tail(events)
  /\ UNCHANGED <<line, initial, waiting, dropped>>

\* The wait ends with an error and is not armed again.
WaitError ==
  /\ waiting
  /\ waiting' = FALSE
  /\ UNCHANGED <<line, events, initial, dropped, unseen, timedSignalVars>>
=============================================================================
