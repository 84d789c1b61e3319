------------------------------ MODULE Startup ------------------------------
(***************************************************************************)
(* The start of the daemon (main, src/Config.cpp, and the constructors of  *)
(* the SignalProvider, of ACPIStates and of the StateMachine with all its  *)
(* units): from the configuration files to the first handler.              *)
(*                                                                         *)
(* Nothing runs concurrently here, but the configuration comes in several  *)
(* files in any order, hardware may be missing or taken, and the model of  *)
(* the running system relies on what the constructors leave behind.        *)
(*                                                                         *)
(* A YAML map is a function from the keys it has to their values.  A value *)
(* of the wrong type fails like a map that its decoder rejects and is not  *)
(* told apart from it.  What is decoded is the node itself: the fields of  *)
(* the Config structs that matter here are read off it.                    *)
(***************************************************************************)
EXTENDS Integers, Sequences, FiniteSets, Functions

CONSTANTS File,         \* the files below the path of the configuration
          Name,         \* the names of signals, lines and regulators
          Trees,        \* contents the files may have
          WithPullups,  \* built with WITH_GPIOD_PULLUPS
          RailSignal,   \* names of the signals of a regulator: On, Enabled,
                        \* Fault and PowerGood, appended to its own name
          Troubles      \* hardware that is missing or GPIO lines in use

VARIABLES contents,    \* the files
          trouble,     \* [absent, busy]: missing hardware, lines in use
          pending,     \* files not looked at yet
          found,       \* a configuration file was found
          cfg,         \* what is left of the Config, by section
          floats,      \* Config::FloatingSignals
          stage,       \* index of the section being constructed, 0: loading
          calls,       \* what the constructor that runs has still to do
          created,     \* SignalProvider::signals, in the order of creation
          recorded,    \* SignalProvider::dirtyB
          high,        \* signals whose level is high
          receivers,   \* signals that have a receiver
          driven,      \* signals some driver of SignalProvider drives
          immutables,  \* SignalProvider::immutables
          held,        \* GPIO lines requested
          handler,     \* dirtyBitSignal is set
          posted,      \* handlers queued in the io_context
          result       \* "none", "running", "exit" or "abort"

loadVars == <<pending, found, cfg, floats>>
providerVars == <<created, recorded, high, receivers, driven, immutables,
                  handler>>
vars == <<contents, trouble, loadVars, stage, calls, providerVars, held,
          posted, result>>

-----------------------------------------------------------------------------
\* The decoders of src/Config.cpp.
Get(node, key, default) == IF key \in DOMAIN node THEN node[key] ELSE default

Flag(node, key) == Get(node, key, FALSE)

\* Both accept keys they do not know.
PinOK(node) ==
  /\ Get(node, "type", "") \in {"gpio", "null"}
  /\ Get(node, "name", "") # ""
  /\ Get(node, "signal_name", "") # ""
  /\ IF WithPullups
     THEN ~(Flag(node, "pulldown") /\ Flag(node, "pullup"))
     ELSE ~(Flag(node, "pulldown") \/ Flag(node, "pullup"))

OutputOK(node) ==
  PinOK(node) /\ ~(Flag(node, "open_drain") /\ Flag(node, "open_source"))

\* These reject them.
LogicOutputOK(node) ==
  /\ DOMAIN node \subseteq {"name", "active_low"}
  /\ Get(node, "name", "") # ""

LogicInputOK(node) ==
  /\ DOMAIN node \subseteq {"name", "invert", "input_stable_usec"}
  /\ Get(node, "name", "") # ""

EmptyMap == [key \in {} |-> ""]
In(unit) == Get(unit, "in", EmptyMap)

\* ConfigLogic::AndSignalInputs and OrSignalInputs, in the order they are
\* constructed in.
InputsOf(unit) == Get(In(unit), "and", <<>>) \o Get(In(unit), "or", <<>>)

UnitOK(unit) ==
  /\ "out" \in DOMAIN unit
  /\ LogicOutputOK(unit["out"])
  /\ DOMAIN In(unit)
       \subseteq {"and", "or", "and_then_or", "invert_first_gate"}
  /\ InputsOf(unit) # <<>>
  /\ \A k \in DOMAIN InputsOf(unit) : LogicInputOK(InputsOf(unit)[k])

ImmutableOK(node) ==
  Get(node, "signal_name", "") # "" /\ "value" \in DOMAIN node

\* A list item of power_sequencer holds one unit or more, and only the first is
\* decoded: node.begin().
NodeOK(section, node) ==
  CASE section = "immutables" -> ImmutableOK(node)
    [] section = "power_sequencer" -> UnitOK(Head(node))
    [] section = "inputs" -> PinOK(node)
    [] section = "outputs" -> OutputOK(node)
    [] section = "regulators" -> Get(node, "name", "") # ""

\* The sections in the order their units are constructed in, the fixed part of
\* ACPIStates among them.
Sections == <<"immutables", "acpi", "power_sequencer", "inputs", "outputs",
              "regulators">>
Section == Range(Sections)
Decoded == Section \ {"acpi"}

\* The nodes of a section of a file; floating_signals is a list of names.
Nodes(file, section) == Get(file.sections, section, <<>>)

FileOK(file) ==
  \A s \in Decoded :
    \A k \in DOMAIN Nodes(file, s) : NodeOK(s, Nodes(file, s)[k])

-----------------------------------------------------------------------------
\* What a constructor does, one call after the other: <<call, operand>>.
Op == {"find", "listen", "drive", "high", "low", "sense", "keep", "event",
       "need", "request", "update", "read"}
Call == Op \X Name

\* The loop over the immutables in the constructor of SignalProvider.
ImmutableCalls(node) ==
  LET s == node["signal_name"]
  IN << <<"find", s>>, <<IF node["value"] THEN "high" ELSE "low", s>>,
        <<"keep", s>> >>

ObservedStates == <<"ACPI_STATE_IS_G3", "ACPI_STATE_IS_S5",
                    "ACPI_STATE_IS_S3", "ACPI_STATE_IS_S0">>

\* ACPIStates, which connects to D-Bus first; main adds it as a driver, and the
\* constructor of StateMachine starts with SetDirtyBitEvent.
ACPICalls ==
  << <<"need", "dbus">> >>
  \o [k \in DOMAIN ObservedStates |-> <<"listen", ObservedStates[k]>>]
  \o << <<"find", "STATE_REQ_HOST_ON">>, <<"find", "STATE_REQ_CHASSIS_ON">>,
        <<"drive", "STATE_REQ_HOST_ON">>, <<"drive", "STATE_REQ_CHASSIS_ON">>,
        <<"event", "dirty">> >>

\* Logic: its inputs, its output and the first update.
UnitCalls(unit) ==
  LET ins == InputsOf(unit)
      out == unit["out"]["name"]
  IN [k \in DOMAIN ins |-> <<"listen", ins[k]["name"]>>]
     \o << <<"find", out>>, <<"update", out>>, <<"drive", out>> >>

\* The constructors of the inputs and outputs, and how StateMachine picks one.
GpioInputCalls(line, s) ==
  << <<"need", line>>, <<"find", s>>, <<"request", line>>, <<"read", s>>,
     <<"drive", s>> >>

NullInputCalls(s) == << <<"find", s>>, <<"drive", s>> >>

GpioOutputCalls(line, s) ==
  << <<"need", line>>, <<"listen", s>>, <<"request", line>> >>

NullOutputCalls(s) == << <<"listen", s>> >>

InputCalls(node) ==
  IF node["type"] = "gpio"
  THEN GpioInputCalls(node["name"], node["signal_name"])
  ELSE NullInputCalls(node["signal_name"])

OutputCalls(node) ==
  IF node["type"] = "gpio"
  THEN GpioOutputCalls(node["name"], node["signal_name"])
  ELSE NullOutputCalls(node["signal_name"])

\* VoltageRegulator: its signals, its directories in sysfs, and the levels the
\* files there stand for, which VoltageRegulator has in detail.
RegulatorCalls(node) ==
  LET rail == RailSignal[node["name"]]
  IN << <<"listen", rail.On>>, <<"find", rail.Enabled>>,
        <<"find", rail.Fault>>, <<"find", rail.PowerGood>>,
        <<"need", node["name"]>>, <<"sense", rail.Enabled>>,
        <<"sense", rail.PowerGood>>, <<"sense", rail.Fault>>,
        <<"drive", rail.Enabled>>, <<"drive", rail.PowerGood>>,
        <<"drive", rail.Fault>> >>

Constructor(section, node) ==
  CASE section = "immutables" -> ImmutableCalls(node)
    [] section = "acpi" -> ACPICalls
    [] section = "power_sequencer" -> UnitCalls(Head(node))
    [] section = "inputs" -> InputCalls(node)
    [] section = "outputs" -> OutputCalls(node)
    [] section = "regulators" -> RegulatorCalls(node)

-----------------------------------------------------------------------------
\* The names that the program knows without a configuration.
ASSUME NamesAssumption ==
  Range(ObservedStates)
    \cup {"STATE_REQ_HOST_ON", "STATE_REQ_CHASSIS_ON", "dbus", "dirty"}
    \subseteq Name

ASSUME TreesAssumption ==
  /\ WithPullups \in BOOLEAN
  /\ \A t \in Trees : DOMAIN t = File
  /\ \A t \in Trees, f \in File :
       /\ Nodes(t[f], "floating_signals") \in Seq(Name)
       /\ \A s \in Decoded : Nodes(t[f], s) \in Seq(Range(Nodes(t[f], s)))
       /\ \A node \in Range(Nodes(t[f], "immutables")) :
            ImmutableOK(node) => node["value"] \in BOOLEAN
       /\ \A item \in Range(Nodes(t[f], "power_sequencer")) :
            InputsOf(Head(item)) \in Seq(Range(InputsOf(Head(item))))

\* A decoded node has the names its constructor uses.
ASSUME CallsAssumption ==
  \A t \in Trees, f \in File, s \in Decoded :
    \A n \in Range(Nodes(t[f], s)) :
      NodeOK(s, n) => Constructor(s, n) \in Seq(Call)

\* The nodes of the files that are decoded.
Yaml == {f \in File : contents[f].yaml}
Items(section) == UNION {Range(Nodes(contents[f], section)) : f \in Yaml}
Buildable(s) ==
  IF s = "acpi" THEN {EmptyMap} ELSE {n \in Items(s) : NodeOK(s, n)}

TypeOK ==
  /\ DOMAIN contents = File
  /\ pending \subseteq File
  /\ found \in BOOLEAN
  /\ DOMAIN cfg = Section
  /\ \A s \in Section : cfg[s] \in Seq(Buildable(s))
  /\ floats \in Seq(Name)
  /\ stage \in 0..Len(Sections) + 1
  /\ calls \in Seq(Call)
  /\ created \in Seq(Name)
  /\ recorded \in Seq(Name)
  /\ high \cup receivers \cup driven \cup immutables \subseteq Range(created)
  /\ held \subseteq Name
  /\ handler \in BOOLEAN
  /\ posted \in Seq(({"evaluate"} \cup Op) \X Name)
  /\ result \in {"none", "running", "exit", "abort"}

Init ==
  /\ contents \in Trees
  /\ trouble \in Troubles
  /\ pending = File
  /\ found = FALSE
  /\ cfg = [s \in Section |-> IF s = "acpi" THEN <<EmptyMap>> ELSE <<>>]
  /\ floats = <<>>
  /\ stage = 0
  /\ calls = <<>>
  /\ created = <<>>
  /\ recorded = <<>>
  /\ high = {}
  /\ receivers = {}
  /\ driven = {}
  /\ immutables = {}
  /\ held = {}
  /\ handler = FALSE
  /\ posted = <<>>
  /\ result = "none"

-----------------------------------------------------------------------------
\* LoadConfig: load for every entry of the directory.  A path that is a single
\* file behaves like a directory with this file; one that is not YAML fails
\* like a directory with none.
Loading(f) == result = "none" /\ stage = 0 /\ f \in pending

SkipFile(f) ==
  /\ Loading(f)
  /\ ~contents[f].yaml
  /\ pending' = pending \ {f}
  /\ UNCHANGED <<contents, trouble, found, cfg, floats, stage, calls,
                 providerVars, held, posted, result>>

\* A mutant of MergeFile: the sections of a file replace those read before.
MergeFileReplaces(f) ==
  /\ Loading(f)
  /\ contents[f].yaml
  /\ FileOK(contents[f])
  /\ pending' = pending \ {f}
  /\ found' = TRUE
  /\ cfg' = [s \in Section |->
               IF s = "acpi" THEN cfg[s] ELSE Nodes(contents[f], s)]
  /\ floats' = Nodes(contents[f], "floating_signals")
  /\ UNCHANGED <<contents, trouble, stage, calls, providerVars, held, posted,
                 result>>

\* The sections of a file are appended to those read before; sections that are
\* not known are ignored.
MergeFile(f) ==
  /\ Loading(f)
  /\ contents[f].yaml
  /\ FileOK(contents[f])
  /\ pending' = pending \ {f}
  /\ found' = TRUE
  /\ cfg' = [s \in Section |->
               IF s = "acpi" THEN cfg[s] ELSE cfg[s] \o Nodes(contents[f], s)]
  /\ floats' = floats \o Nodes(contents[f], "floating_signals")
  /\ UNCHANGED <<contents, trouble, stage, calls, providerVars, held, posted,
                 result>>

\* The program ends: "exit" reports an exception, "abort" is one that main does
\* not catch.
Fail(how) ==
  /\ result' = how
  /\ UNCHANGED <<contents, trouble, loadVars, stage, calls, providerVars, held,
                 posted>>

RejectFile(f) ==
  /\ Loading(f)
  /\ contents[f].yaml
  /\ ~FileOK(contents[f])
  /\ Fail("exit")

NothingFound ==
  /\ result = "none"
  /\ stage = 0
  /\ pending = {}
  /\ ~found
  /\ Fail("exit")

\* The files are loaded, or all units of a section constructed.
NextSection ==
  /\ result = "none"
  /\ IF stage = 0
     THEN pending = {} /\ found
     ELSE stage <= Len(Sections) /\ calls = <<>> /\ cfg[Sections[stage]] = <<>>
  /\ stage' = stage + 1
  /\ UNCHANGED <<contents, trouble, loadVars, calls, providerVars, held,
                 posted, result>>

\* The constructor of the next unit is entered.
NextUnit ==
  /\ result = "none"
  /\ stage \in 1..Len(Sections)
  /\ calls = <<>>
  /\ LET section == Sections[stage]
     IN /\ cfg[section] # <<>>
        /\ calls' = Constructor(section, Head(cfg[section]))
        /\ cfg' = [cfg EXCEPT ![section] = Tail(@)]
  /\ UNCHANGED <<contents, trouble, pending, found, floats, stage,
                 providerVars, held, posted, result>>

-----------------------------------------------------------------------------
\* The calls of the constructors.
Operand == Head(calls)[2]

Calling(ops) ==
  /\ result = "none"
  /\ calls # <<>>
  /\ Head(calls)[1] \in ops

Return ==
  /\ calls' = Tail(calls)
  /\ UNCHANGED <<contents, trouble, loadVars, stage, result>>

\* Mutants of FindOrAdd: it does not find what was added before; Add tracks the
\* signal through SetDirty, which raises the event.
FindOrAddBlind(s) ==
  /\ created' = Append(created, s)
  /\ recorded' = IF s \in Range(created) THEN recorded ELSE Append(recorded, s)
  /\ UNCHANGED posted

FindOrAddRaises(s) ==
  IF s \in Range(created)
  THEN UNCHANGED <<created, recorded, posted>>
  ELSE /\ created' = Append(created, s)
       /\ recorded' = Append(recorded, s)
       /\ posted' = IF handler THEN Append(posted, <<"evaluate", "dirty">>)
                               ELSE posted

\* SignalProvider::FindOrAdd: a signal is created low, and recorded as changed
\* without raising the event.  Decoded names are not empty.
FindOrAdd(s) ==
  IF s \in Range(created)
  THEN UNCHANGED <<created, recorded, posted>>
  ELSE /\ created' = Append(created, s)
       /\ recorded' = Append(recorded, s)
       /\ UNCHANGED posted

Find ==
  /\ Calling({"find"})
  /\ FindOrAdd(Operand)
  /\ Return
  /\ UNCHANGED <<high, receivers, driven, immutables, held, handler>>

\* A mutant of Listen: the signal is only looked up.
ListenFinds ==
  /\ Calling({"listen"})
  /\ receivers' = receivers \cup {Operand}
  /\ Return
  /\ UNCHANGED <<created, recorded, high, driven, immutables, held, handler,
                 posted>>

\* FindOrAdd and Signal::AddReceiver.
Listen ==
  /\ Calling({"listen"})
  /\ FindOrAdd(Operand)
  /\ receivers' = receivers \cup {Operand}
  /\ Return
  /\ UNCHANGED <<high, driven, immutables, held, handler>>

\* SignalProvider::AddDriver.
Drive ==
  /\ Calling({"drive"})
  /\ driven' = driven \cup {Operand}
  /\ Return
  /\ UNCHANGED <<created, recorded, high, receivers, immutables, held,
                 handler, posted>>

\* Signal::SetLevel.  A signal that is recorded already raises no event; calling
\* one that is not set is an exception.
SetLevel ==
  /\ Calling({"high", "low", "sense"})
  /\ \E level \in CASE Head(calls)[1] = "high" -> {TRUE}
                    [] Head(calls)[1] = "low" -> {FALSE}
                    [] OTHER -> BOOLEAN :
       LET raises == level # (Operand \in high) /\ Operand \notin Range(recorded)
       IN IF raises /\ ~handler
          THEN Fail("exit")
          ELSE /\ high' = IF level THEN high \cup {Operand} ELSE high \ {Operand}
               /\ recorded' = IF raises THEN Append(recorded, Operand)
                                        ELSE recorded
               /\ posted' = IF raises THEN Append(posted, <<"evaluate", "dirty">>)
                                      ELSE posted
               /\ Return
               /\ UNCHANGED <<created, receivers, driven, immutables, held,
                              handler>>

KeepImmutable ==
  /\ Calling({"keep"})
  /\ immutables' = immutables \cup {Operand}
  /\ Return
  /\ UNCHANGED <<created, recorded, high, receivers, driven, held, handler,
                 posted>>

SetDirtyBitEvent ==
  /\ Calling({"event"})
  /\ handler' = TRUE
  /\ Return
  /\ UNCHANGED <<created, recorded, high, receivers, driven, immutables, held,
                 posted>>

\* A line, a regulator or the bus is looked up.
HardwareFound ==
  /\ Calling({"need"})
  /\ Operand \notin trouble.absent
  /\ Return
  /\ UNCHANGED <<providerVars, held, posted>>

HardwareMissing ==
  /\ Calling({"need"})
  /\ Operand \in trouble.absent
  /\ Fail("exit")

\* A GPIO line is requested.  What is thrown when that fails is a string, no
\* exception (src/GpioInput.cpp:112, src/GpioOutput.cpp:92).
LineGranted ==
  /\ Calling({"request"})
  /\ Operand \notin trouble.busy \cup held
  /\ held' = held \cup {Operand}
  /\ Return
  /\ UNCHANGED <<providerVars, posted>>

LineRefused ==
  /\ Calling({"request"})
  /\ Operand \in trouble.busy \cup held
  /\ Fail("abort")

\* The first update of a unit and the first read of a line are posted.
Post ==
  /\ Calling({"update", "read"})
  /\ posted' = Append(posted, Head(calls))
  /\ Return
  /\ UNCHANGED <<providerVars, held>>

-----------------------------------------------------------------------------
\* Signal::Validate: someone listens, unless the signal is floating.
SignalValid(s) == s \in receivers \/ s \in Range(floats)

\* SignalProvider::Validate: and someone drives it.
Valid ==
  \A s \in Range(created) : SignalValid(s) /\ (s \in driven \/ s \in immutables)

Built == result = "none" /\ stage = Len(Sections) + 1

\* StateMachine::Run posts the first evaluation and runs the handlers.
Run ==
  /\ Built
  /\ Valid
  /\ posted' = Append(posted, <<"evaluate", "dirty">>)
  /\ result' = "running"
  /\ UNCHANGED <<contents, trouble, loadVars, stage, calls, providerVars, held>>

Invalid ==
  /\ Built
  /\ ~Valid
  /\ Fail("exit")

\* Nothing is left to do: the handlers run, or the program is gone.
Ended == result # "none" /\ UNCHANGED vars

Next ==
  \/ \E f \in File : SkipFile(f) \/ MergeFile(f) \/ RejectFile(f)
  \/ NothingFound
  \/ NextSection
  \/ NextUnit
  \/ Find
  \/ Listen
  \/ Drive
  \/ SetLevel
  \/ KeepImmutable
  \/ SetDirtyBitEvent
  \/ HardwareFound
  \/ HardwareMissing
  \/ LineGranted
  \/ LineRefused
  \/ Post
  \/ Run
  \/ Invalid
  \/ Ended

Spec == Init /\ [][Next]_vars

-----------------------------------------------------------------------------
\* What the files say, whatever the order they are read in.
Units == {Head(item) : item \in Items("power_sequencer")}
Rails == {RailSignal[node["name"]] : node \in Items("regulators")}

Listened ==
  Range(ObservedStates)
  \cup {node["signal_name"] : node \in Items("outputs")}
  \cup {rail.On : rail \in Rails}
  \cup UNION {{input["name"] : input \in Range(InputsOf(unit))} : unit \in Units}

\* A level comes from outside the logic: the signals that may start high.
Given ==
  {node["signal_name"] : node \in Items("immutables")}
  \cup UNION {{rail.Enabled, rail.Fault, rail.PowerGood} : rail \in Rails}

\* Validate accepts an immutable signal that a driver sets, too.
Contradicted(node) ==
  \/ node["signal_name"] \in driven
  \/ \E other \in Items("immutables") :
       /\ other["signal_name"] = node["signal_name"]
       /\ other["value"] # node["value"]

Sourced ==
  {"STATE_REQ_HOST_ON", "STATE_REQ_CHASSIS_ON"}
  \cup Given
  \cup {node["signal_name"] : node \in Items("inputs")}
  \cup {unit["out"]["name"] : unit \in Units}

\* Every signal has a driver, and a receiver unless it is floating.
Connected ==
  /\ Listened \subseteq Sourced
  /\ Sourced \subseteq Listened \cup Items("floating_signals")

\* Where the files have a node, and where a GPIO line.
Places(section) ==
  UNION {{<<f, section, k>> : k \in DOMAIN Nodes(contents[f], section)} :
           f \in Yaml}
NodeAt(place) == Nodes(contents[place[1]], place[2])[place[3]]
LineAt(place) == NodeAt(place)["name"]
Lines == {place \in Places("inputs") \cup Places("outputs") :
            NodeAt(place)["type"] = "gpio"}

Needed ==
  {"dbus"}
  \cup {LineAt(place) : place \in Lines}
  \cup {node["name"] : node \in Items("regulators")}

WellFormed == Yaml # {} /\ \A f \in Yaml : FileOK(contents[f])

\* A line is in use by another program, or is wanted twice.
Clash ==
  \/ \E place \in Lines : LineAt(place) \in trouble.busy
  \/ \E place, other \in Lines :
       place # other /\ LineAt(place) = LineAt(other)

-----------------------------------------------------------------------------
\* Every signal is recorded as changed when it is created and once only, in
\* whatever order constructors ask for it: the first evaluation reaches every
\* receiver, which is what the running system starts from (SignalInit).
AllRecorded == recorded = created /\ IsInjective(created)

\* The first evaluation is posted behind the first update of every unit and the
\* first read of every line, and no other: setting levels while constructing
\* raises no event.  Only levels given from outside are high, and an immutable
\* signal has its level, unless the files contradict it.
StartsAsAssumed ==
  result = "running" =>
    /\ handler
    /\ \A k \in DOMAIN posted : posted[k][1] = "evaluate" <=> k = Len(posted)
    /\ Len(posted) = 1 + Cardinality(Places("power_sequencer"))
                       + Cardinality(Lines \cap Places("inputs"))
    /\ Range(created) = Listened \cup Sourced
    /\ high \subseteq Given
    /\ \A node \in Items("immutables") :
         \/ Contradicted(node)
         \/ node["signal_name"] \in high <=> node["value"]

\* The program runs exactly when the files are well formed, connect every signal
\* at both ends and find their hardware free, whatever files the parts are in
\* and the order they are read in.  It ends without a report only for a line
\* that is taken, or used twice.
VerdictMatches ==
  /\ result = "running" =>
       /\ WellFormed
       /\ Connected
       /\ Needed \cap trouble.absent = {}
       /\ ~Clash
  /\ result = "exit" =>
       ~(WellFormed /\ Connected /\ Needed \cap trouble.absent = {})
  /\ result = "abort" => WellFormed /\ Clash
=============================================================================
