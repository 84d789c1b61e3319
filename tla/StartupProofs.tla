--------------------------- MODULE StartupProofs ---------------------------
(***************************************************************************)
(* Proofs about Startup for every set of files, whatever they contain and  *)
(* in whatever order they are read, and for any hardware that is missing   *)
(* or taken.                                                               *)
(*                                                                         *)
(* First, what the constructors call for, in which order, and that it is   *)
(* what the files name: facts about the operators alone. Then the          *)
(* inductive invariant, one lemma for each action, and the theorems.       *)
(***************************************************************************)
EXTENDS Startup, FiniteSetTheorems, SequenceTheorems, TLAPS

\* The operations of the calls, by what they are for.
Sets == {"drive", "high", "low", "sense", "keep"}
Creates == {"find", "listen"}
Posts == {"update", "read"}

\* What the order of the calls of a constructor is relied on for: a signal is
\* created before it is set; a level that is sensed comes from a driver that
\* registers later; and a constructor posts one handler and requests one line
\* at most.
Ordered(c) ==
  /\ \A k \in DOMAIN c : c[k][1] \in Sets =>
       \E j \in 1..(k - 1) : c[j][1] \in Creates /\ c[j][2] = c[k][2]
  /\ \A k \in DOMAIN c : c[k][1] = "sense" =>
       \E j \in DOMAIN c : j > k /\ c[j] = <<"drive", c[k][2]>>
  /\ \A j, k \in DOMAIN c : c[j][1] \in Posts /\ c[k][1] \in Posts => j = k
  /\ \A j, k \in DOMAIN c : c[j][1] = "request" /\ c[k][1] = "request" => j = k

\* The sections in the order main walks them in.
LEMMA SectionFacts ==
  /\ Len(Sections) = 6
  /\ DOMAIN Sections = 1..6
  /\ Section = {"immutables", "acpi", "power_sequencer", "inputs", "outputs",
                "regulators"}
  /\ Decoded = {"immutables", "power_sequencer", "inputs", "outputs",
                "regulators"}
  /\ \A i \in 1..6 : Sections[i] \in Section
  /\ \A i, j \in 1..6 : Sections[i] = Sections[j] => i = j
  /\ \A s \in Section : \E i \in 1..6 : Sections[i] = s
BY DEF Sections, Section, Decoded, Range

\* The constructor of an immutable signal makes its calls in order.
LEMMA ImmutableOrder ==
  ASSUME NEW node
  PROVE  Ordered(ImmutableCalls(node))
BY DEF Ordered, ImmutableCalls, Sets, Creates, Posts

\* So does that of a regulator, which sets its three outputs while it is
\* constructed.
LEMMA RegulatorOrder ==
  ASSUME NEW node
  PROVE  Ordered(RegulatorCalls(node))
<1> DEFINE c == RegulatorCalls(node)
           rail == RailSignal[node["name"]]
<1>1. /\ DOMAIN c = 1..11
      /\ c[1] = <<"listen", rail.On>>
      /\ c[2] = <<"find", rail.Enabled>>
      /\ c[3] = <<"find", rail.Fault>>
      /\ c[4] = <<"find", rail.PowerGood>>
      /\ c[5] = <<"need", node["name"]>>
      /\ c[6] = <<"sense", rail.Enabled>>
      /\ c[7] = <<"sense", rail.PowerGood>>
      /\ c[8] = <<"sense", rail.Fault>>
      /\ c[9] = <<"drive", rail.Enabled>>
      /\ c[10] = <<"drive", rail.PowerGood>>
      /\ c[11] = <<"drive", rail.Fault>>
  BY DEF RegulatorCalls
<1> HIDE DEF c, rail
<1>2. \A k \in 1..11 : k \in {1, 2, 3, 4, 5, 6, 7, 8, 9, 10, 11}
  OBVIOUS
<1>3. ASSUME NEW k \in DOMAIN c, c[k][1] \in Sets
      PROVE  \E j \in 1..(k - 1) : c[j][1] \in Creates /\ c[j][2] = c[k][2]
  <2>1. k \in {6, 7, 8, 9, 10, 11}
    BY <1>1, <1>2, <1>3 DEF Sets
  <2>2. CASE k \in {6, 9}
    BY <1>1, <2>2 DEF Creates
  <2>3. CASE k \in {7, 10}
    BY <1>1, <2>3 DEF Creates
  <2>4. CASE k \in {8, 11}
    BY <1>1, <2>4 DEF Creates
  <2> QED BY <2>1, <2>2, <2>3, <2>4
<1>4. ASSUME NEW k \in DOMAIN c, c[k][1] = "sense"
      PROVE  \E j \in DOMAIN c : j > k /\ c[j] = <<"drive", c[k][2]>>
  <2>1. k \in {6, 7, 8}
    BY <1>1, <1>2, <1>4
  <2> QED BY <1>1, <2>1
<1>5. \A k \in DOMAIN c : c[k][1] \notin Posts /\ c[k][1] # "request"
  BY <1>1, <1>2 DEF Posts
<1>6. Ordered(c)
  BY <1>3, <1>4, <1>5 DEF Ordered
<1> QED BY <1>6 DEF c

\* So do those of the inputs.
LEMMA InputOrder ==
  ASSUME NEW node
  PROVE  Ordered(InputCalls(node))
BY DEF Ordered, InputCalls, GpioInputCalls, NullInputCalls, Sets, Creates, Posts

\* So do those of the outputs.
LEMMA OutputOrder ==
  ASSUME NEW node
  PROVE  Ordered(OutputCalls(node))
BY DEF Ordered, OutputCalls, GpioOutputCalls, NullOutputCalls, Sets, Creates, Posts

\* A sequence of calls made from a sequence, and calls after it.
LEMMA ConcatShape ==
  ASSUME NEW f, NEW n \in Nat, DOMAIN f = 1..n, f = [k \in 1..n |-> f[k]],
         NEW m \in Nat, NEW tail, DOMAIN tail = 1..m,
         tail = [k \in 1..m |-> tail[k]]
  PROVE  /\ DOMAIN (f \o tail) = 1..(n + m)
         /\ \A k \in 1..n : (f \o tail)[k] = f[k]
         /\ \A k \in (n + 1)..(n + m) : (f \o tail)[k] = tail[k - n]
         /\ f \o tail = [k \in 1..(n + m) |-> (f \o tail)[k]]
<1> DEFINE S == Range(f) \cup Range(tail)
<1>1. f \in [1..n -> S] /\ tail \in [1..m -> S]
  BY DEF Range
<1>2. f \in Seq(S) /\ tail \in Seq(S)
  BY <1>1, SeqDef
<1>2a. Len(f) = n /\ Len(tail) = m
  BY <1>2, LenProperties
<1> HIDE DEF S
<1>3. /\ f \o tail \in Seq(S)
      /\ Len(f \o tail) = n + m
      /\ \A k \in 1..(n + m) : (f \o tail)[k] =
           IF k <= n THEN f[k] ELSE tail[k - n]
  BY <1>2, <1>2a, ConcatProperties
<1>4. DOMAIN (f \o tail) = 1..(n + m) /\ f \o tail \in [1..(n + m) -> S]
  BY <1>3, LenProperties
<1> QED BY <1>3, <1>4

\* The calls of ACPIStates one by one.
LEMMA ACPIShape ==
  /\ DOMAIN ACPICalls = 1..10
  /\ ACPICalls[1] = <<"need", "dbus">>
  /\ ACPICalls[2] = <<"listen", "ACPI_STATE_IS_G3">>
  /\ ACPICalls[3] = <<"listen", "ACPI_STATE_IS_S5">>
  /\ ACPICalls[4] = <<"listen", "ACPI_STATE_IS_S3">>
  /\ ACPICalls[5] = <<"listen", "ACPI_STATE_IS_S0">>
  /\ ACPICalls[6] = <<"find", "STATE_REQ_HOST_ON">>
  /\ ACPICalls[7] = <<"find", "STATE_REQ_CHASSIS_ON">>
  /\ ACPICalls[8] = <<"drive", "STATE_REQ_HOST_ON">>
  /\ ACPICalls[9] = <<"drive", "STATE_REQ_CHASSIS_ON">>
  /\ ACPICalls[10] = <<"event", "dirty">>
<1> DEFINE need == << <<"need", "dbus">> >>
           observed == [k \in DOMAIN ObservedStates |->
                          <<"listen", ObservedStates[k]>>]
           last == << <<"find", "STATE_REQ_HOST_ON">>,
                      <<"find", "STATE_REQ_CHASSIS_ON">>,
                      <<"drive", "STATE_REQ_HOST_ON">>,
                      <<"drive", "STATE_REQ_CHASSIS_ON">>,
                      <<"event", "dirty">> >>
<1>1. DOMAIN need = 1..1 /\ need = [k \in 1..1 |-> need[k]]
  OBVIOUS
<1>2. DOMAIN ObservedStates = 1..4
  BY DEF ObservedStates
<1>3. DOMAIN observed = 1..4 /\ observed = [k \in 1..4 |-> observed[k]]
  BY <1>2
<1>4. /\ observed[1] = <<"listen", "ACPI_STATE_IS_G3">>
      /\ observed[2] = <<"listen", "ACPI_STATE_IS_S5">>
      /\ observed[3] = <<"listen", "ACPI_STATE_IS_S3">>
      /\ observed[4] = <<"listen", "ACPI_STATE_IS_S0">>
  BY <1>2 DEF ObservedStates
<1>5. DOMAIN last = 1..5 /\ last = [k \in 1..5 |-> last[k]]
  OBVIOUS
<1>6. need[1] = <<"need", "dbus">>
  OBVIOUS
<1>7. /\ last[1] = <<"find", "STATE_REQ_HOST_ON">>
      /\ last[2] = <<"find", "STATE_REQ_CHASSIS_ON">>
      /\ last[3] = <<"drive", "STATE_REQ_HOST_ON">>
      /\ last[4] = <<"drive", "STATE_REQ_CHASSIS_ON">>
      /\ last[5] = <<"event", "dirty">>
  OBVIOUS
<1>8. ACPICalls = (need \o observed) \o last
  BY DEF ACPICalls
<1> HIDE DEF need, observed, last
<1> DEFINE head == need \o observed
<1>9. /\ DOMAIN head = 1..5
      /\ head[1] = need[1]
      /\ \A k \in (1 + 1)..(1 + 4) : head[k] = observed[k - 1]
      /\ head = [k \in 1..5 |-> head[k]]
  BY <1>1, <1>3, ConcatShape
<1> HIDE DEF head
<1>10. /\ DOMAIN (head \o last) = 1..10
       /\ \A k \in 1..5 : (head \o last)[k] = head[k]
       /\ \A k \in (5 + 1)..(5 + 5) : (head \o last)[k] = last[k - 5]
  BY <1>5, <1>9, ConcatShape
<1>11. ACPICalls = head \o last
  BY <1>8 DEF head
<1>12. /\ head[2] = observed[1] /\ head[3] = observed[2]
       /\ head[4] = observed[3] /\ head[5] = observed[4]
  BY <1>9
<1>13. /\ (head \o last)[1] = need[1]
       /\ (head \o last)[2] = observed[1]
       /\ (head \o last)[3] = observed[2]
       /\ (head \o last)[4] = observed[3]
       /\ (head \o last)[5] = observed[4]
  BY <1>9, <1>10, <1>12
<1>14. /\ (head \o last)[6] = last[1]
       /\ (head \o last)[7] = last[2]
       /\ (head \o last)[8] = last[3]
       /\ (head \o last)[9] = last[4]
       /\ (head \o last)[10] = last[5]
  <2>1. 6 - 5 = 1 /\ 7 - 5 = 2 /\ 8 - 5 = 3 /\ 9 - 5 = 4 /\ 10 - 5 = 5
    OBVIOUS
  <2>2. \A k \in {6, 7, 8, 9, 10} : k \in (5 + 1)..(5 + 5)
    OBVIOUS
  <2>3. \A k \in {6, 7, 8, 9, 10} : (head \o last)[k] = last[k - 5]
    BY <1>10, <2>2
  <2> QED BY <2>1, <2>3
<1> QED BY <1>4, <1>6, <1>7, <1>10, <1>11, <1>13, <1>14

\* The calls of a unit of logic one by one: its inputs listen, then its output
\* is created and its update posted.
LEMMA UnitShape ==
  ASSUME NEW unit, NEW S, InputsOf(unit) \in Seq(S), NEW n, n = Len(InputsOf(unit))
  PROVE  /\ n \in Nat /\ DOMAIN InputsOf(unit) = 1..n
         /\ DOMAIN UnitCalls(unit) = 1..(n + 3)
         /\ \A k \in 1..n :
              UnitCalls(unit)[k] = <<"listen", InputsOf(unit)[k]["name"]>>
         /\ UnitCalls(unit)[n + 1] = <<"find", unit["out"]["name"]>>
         /\ UnitCalls(unit)[n + 2] = <<"update", unit["out"]["name"]>>
         /\ UnitCalls(unit)[n + 3] = <<"drive", unit["out"]["name"]>>
<1> DEFINE ins == InputsOf(unit)
           out == unit["out"]["name"]
           first == [k \in DOMAIN ins |-> <<"listen", ins[k]["name"]>>]
           last == << <<"find", out>>, <<"update", out>>, <<"drive", out>> >>
<1>1. Len(ins) \in Nat /\ DOMAIN ins = 1..Len(ins)
  BY LenProperties
<1>2. UnitCalls(unit) = first \o last
  BY DEF UnitCalls
<1>3. /\ DOMAIN first = 1..Len(ins)
      /\ first = [k \in 1..Len(ins) |-> first[k]]
      /\ \A k \in 1..Len(ins) : first[k] = <<"listen", ins[k]["name"]>>
  BY <1>1
<1>4. /\ DOMAIN last = 1..3
      /\ last = [k \in 1..3 |-> last[k]]
      /\ last[1] = <<"find", out>>
      /\ last[2] = <<"update", out>>
      /\ last[3] = <<"drive", out>>
  OBVIOUS
<1> HIDE DEF first, last
<1>5. /\ DOMAIN (first \o last) = 1..(Len(ins) + 3)
      /\ \A k \in 1..Len(ins) : (first \o last)[k] = first[k]
      /\ \A k \in (Len(ins) + 1)..(Len(ins) + 3) :
           (first \o last)[k] = last[k - Len(ins)]
  BY <1>1, <1>3, <1>4, ConcatShape
<1>6. /\ (first \o last)[Len(ins) + 1] = last[1]
      /\ (first \o last)[Len(ins) + 2] = last[2]
      /\ (first \o last)[Len(ins) + 3] = last[3]
  BY <1>1, <1>5
<1>7. \A k \in 1..Len(ins) :
        (first \o last)[k] = <<"listen", ins[k]["name"]>>
  BY <1>3, <1>5
<1> QED BY <1>1, <1>2, <1>4, <1>5, <1>6, <1>7 DEF ins, out

\* The constructor of ACPIStates makes its calls in order.
LEMMA ACPIOrder == Ordered(ACPICalls)
<1>1. \A k \in 1..10 : k \in {1, 2, 3, 4, 5, 6, 7, 8, 9, 10}
  OBVIOUS
<1>2. DOMAIN ACPICalls = 1..10
  BY ACPIShape
<1> SUFFICES ASSUME NEW c, c = ACPICalls PROVE Ordered(c)
  OBVIOUS
<1>3. /\ DOMAIN c = 1..10
      /\ c[1][1] = "need"
      /\ c[2][1] = "listen" /\ c[3][1] = "listen"
      /\ c[4][1] = "listen" /\ c[5][1] = "listen"
      /\ c[6][1] = "find" /\ c[7][1] = "find"
      /\ c[8][1] = "drive" /\ c[9][1] = "drive"
      /\ c[10][1] = "event"
      /\ c[6][2] = c[8][2] /\ c[7][2] = c[9][2]
  BY ACPIShape
<1>4. \A k \in 1..10 :
        /\ c[k][1] \in Sets => k \in {8, 9}
        /\ c[k][1] \notin Posts \cup {"request", "sense"}
  BY <1>1, <1>3 DEF Sets, Posts
<1>5. /\ c[6][1] \in Creates /\ 6 \in 1..(8 - 1)
      /\ c[7][1] \in Creates /\ 7 \in 1..(9 - 1)
  BY <1>3 DEF Creates
<1> QED BY <1>3, <1>4, <1>5 DEF Ordered

\* So does that of a unit of logic.
LEMMA UnitOrder ==
  ASSUME NEW unit, NEW S, InputsOf(unit) \in Seq(S)
  PROVE  Ordered(UnitCalls(unit))
<1> SUFFICES ASSUME NEW c, c = UnitCalls(unit), NEW n, n = Len(InputsOf(unit))
             PROVE  Ordered(c)
  OBVIOUS
<1>1. /\ n \in Nat
      /\ DOMAIN c = 1..(n + 3)
      /\ \A k \in 1..n : c[k][1] = "listen"
      /\ c[n + 1][1] = "find"
      /\ c[n + 2][1] = "update"
      /\ c[n + 3][1] = "drive"
      /\ c[n + 1][2] = c[n + 3][2]
  BY UnitShape
<1>2. \A k \in DOMAIN c : k \in 1..n \/ k \in {n + 1, n + 2, n + 3}
  BY <1>1
<1>3. \A k \in DOMAIN c :
        /\ c[k][1] \in Sets => k = n + 3
        /\ c[k][1] \in Posts => k = n + 2
        /\ c[k][1] \notin {"sense", "request"}
  BY <1>1, <1>2 DEF Sets, Posts
<1>4. ASSUME NEW k \in DOMAIN c, c[k][1] \in Sets
      PROVE  \E j \in 1..(k - 1) : c[j][1] \in Creates /\ c[j][2] = c[k][2]
  <2>1. k = n + 3
    BY <1>3, <1>4
  <2>2. n + 1 \in 1..(k - 1)
    BY <1>1, <2>1
  <2>3. c[n + 1][1] \in Creates /\ c[n + 1][2] = c[k][2]
    BY <1>1, <2>1 DEF Creates
  <2> QED BY <2>2, <2>3
<1> QED BY <1>3, <1>4 DEF Ordered

-----------------------------------------------------------------------------
\* The calls of each constructor, as sets.
LEMMA ImmutableRange ==
  ASSUME NEW node, NEW s, s = node["signal_name"]
  PROVE  Range(ImmutableCalls(node)) =
           {<<"find", s>>, <<IF node["value"] THEN "high" ELSE "low", s>>,
            <<"keep", s>>}
<1> SUFFICES ASSUME NEW c, c = ImmutableCalls(node),
                    NEW l, l = IF node["value"] THEN "high" ELSE "low"
             PROVE  Range(c) = {<<"find", s>>, <<l, s>>, <<"keep", s>>}
  OBVIOUS
<1>1. /\ DOMAIN c = 1..3
      /\ c[1] = <<"find", s>> /\ c[2] = <<l, s>> /\ c[3] = <<"keep", s>>
  BY DEF ImmutableCalls
<1>2. 1..3 = {1, 2, 3}
  OBVIOUS
<1> QED BY <1>1, <1>2 DEF Range

\* An input requests a line, and posts the read of its level, only if it is a
\* GPIO.
LEMMA InputRange ==
  ASSUME NEW node, NEW s, s = node["signal_name"]
  PROVE  /\ node["type"] = "gpio" => Range(InputCalls(node)) =
               {<<"need", node["name"]>>, <<"find", s>>,
                <<"request", node["name"]>>, <<"read", s>>, <<"drive", s>>}
         /\ node["type"] # "gpio" =>
               Range(InputCalls(node)) = {<<"find", s>>, <<"drive", s>>}
<1> SUFFICES ASSUME NEW c, c = InputCalls(node), NEW l, l = node["name"]
             PROVE  /\ node["type"] = "gpio" => Range(c) =
                          {<<"need", l>>, <<"find", s>>, <<"request", l>>,
                           <<"read", s>>, <<"drive", s>>}
                    /\ node["type"] # "gpio" =>
                          Range(c) = {<<"find", s>>, <<"drive", s>>}
  OBVIOUS
<1>1. 1..5 = {1, 2, 3, 4, 5} /\ 1..2 = {1, 2}
  OBVIOUS
<1>2. CASE node["type"] = "gpio"
  <2>1. /\ DOMAIN c = 1..5
        /\ c[1] = <<"need", l>> /\ c[2] = <<"find", s>>
        /\ c[3] = <<"request", l>> /\ c[4] = <<"read", s>>
        /\ c[5] = <<"drive", s>>
    BY <1>2 DEF InputCalls, GpioInputCalls
  <2> QED BY <1>1, <1>2, <2>1 DEF Range
<1>3. CASE node["type"] # "gpio"
  <2>1. DOMAIN c = 1..2 /\ c[1] = <<"find", s>> /\ c[2] = <<"drive", s>>
    BY <1>3 DEF InputCalls, NullInputCalls
  <2> QED BY <1>1, <1>3, <2>1 DEF Range
<1> QED BY <1>2, <1>3

\* An output requests a line only if it is a GPIO.
LEMMA OutputRange ==
  ASSUME NEW node, NEW s, s = node["signal_name"]
  PROVE  /\ node["type"] = "gpio" => Range(OutputCalls(node)) =
               {<<"need", node["name"]>>, <<"listen", s>>,
                <<"request", node["name"]>>}
         /\ node["type"] # "gpio" =>
               Range(OutputCalls(node)) = {<<"listen", s>>}
<1> SUFFICES ASSUME NEW c, c = OutputCalls(node), NEW l, l = node["name"]
             PROVE  /\ node["type"] = "gpio" => Range(c) =
                          {<<"need", l>>, <<"listen", s>>, <<"request", l>>}
                    /\ node["type"] # "gpio" => Range(c) = {<<"listen", s>>}
  OBVIOUS
<1>1. 1..3 = {1, 2, 3} /\ 1..1 = {1}
  OBVIOUS
<1>2. CASE node["type"] = "gpio"
  <2>1. /\ DOMAIN c = 1..3
        /\ c[1] = <<"need", l>> /\ c[2] = <<"listen", s>>
        /\ c[3] = <<"request", l>>
    BY <1>2 DEF OutputCalls, GpioOutputCalls
  <2> QED BY <1>1, <1>2, <2>1 DEF Range
<1>3. CASE node["type"] # "gpio"
  <2>1. DOMAIN c = 1..1 /\ c[1] = <<"listen", s>>
    BY <1>3 DEF OutputCalls, NullOutputCalls
  <2> QED BY <1>1, <1>3, <2>1 DEF Range
<1> QED BY <1>2, <1>3

\* A regulator has one signal it obeys and three it drives.
LEMMA RegulatorRange ==
  ASSUME NEW node, NEW rail, rail = RailSignal[node["name"]]
  PROVE  Range(RegulatorCalls(node)) =
           {<<"listen", rail.On>>, <<"find", rail.Enabled>>,
            <<"find", rail.Fault>>, <<"find", rail.PowerGood>>,
            <<"need", node["name"]>>, <<"sense", rail.Enabled>>,
            <<"sense", rail.PowerGood>>, <<"sense", rail.Fault>>,
            <<"drive", rail.Enabled>>, <<"drive", rail.PowerGood>>,
            <<"drive", rail.Fault>>}
<1> SUFFICES ASSUME NEW c, c = RegulatorCalls(node),
                    NEW o, o = rail.On, NEW e, e = rail.Enabled,
                    NEW f, f = rail.Fault, NEW g, g = rail.PowerGood,
                    NEW l, l = node["name"]
             PROVE  Range(c) =
                      {<<"listen", o>>, <<"find", e>>, <<"find", f>>,
                       <<"find", g>>, <<"need", l>>, <<"sense", e>>,
                       <<"sense", g>>, <<"sense", f>>, <<"drive", e>>,
                       <<"drive", g>>, <<"drive", f>>}
  OBVIOUS
<1>1. /\ DOMAIN c = 1..11
      /\ c[1] = <<"listen", o>> /\ c[2] = <<"find", e>>
      /\ c[3] = <<"find", f>> /\ c[4] = <<"find", g>>
      /\ c[5] = <<"need", l>> /\ c[6] = <<"sense", e>>
      /\ c[7] = <<"sense", g>> /\ c[8] = <<"sense", f>>
      /\ c[9] = <<"drive", e>> /\ c[10] = <<"drive", g>>
      /\ c[11] = <<"drive", f>>
  BY DEF RegulatorCalls
<1>2. 1..11 = {1, 2, 3, 4, 5, 6, 7, 8, 9, 10, 11}
  OBVIOUS
<1> QED BY <1>1, <1>2 DEF Range

\* A unit listens to its inputs and drives its output.
LEMMA UnitRange ==
  ASSUME NEW unit, NEW S, InputsOf(unit) \in Seq(S),
         NEW out, out = unit["out"]["name"]
  PROVE  Range(UnitCalls(unit)) =
           {<<"listen", input["name"]>> : input \in Range(InputsOf(unit))}
           \cup {<<"find", out>>, <<"update", out>>, <<"drive", out>>}
<1> SUFFICES ASSUME NEW c, c = UnitCalls(unit), NEW ins, ins = InputsOf(unit),
                    NEW n, n = Len(ins)
             PROVE  Range(c) =
                      {<<"listen", input["name"]>> : input \in Range(ins)}
                      \cup {<<"find", out>>, <<"update", out>>, <<"drive", out>>}
  OBVIOUS
<1>1. /\ n \in Nat /\ DOMAIN ins = 1..n /\ DOMAIN c = 1..(n + 3)
      /\ \A k \in 1..n : c[k] = <<"listen", ins[k]["name"]>>
      /\ c[n + 1] = <<"find", out>>
      /\ c[n + 2] = <<"update", out>>
      /\ c[n + 3] = <<"drive", out>>
  BY UnitShape
<1> DEFINE R == {<<"listen", input["name"]>> : input \in Range(ins)}
                \cup {<<"find", out>>, <<"update", out>>, <<"drive", out>>}
<1>2. ASSUME NEW x \in Range(c)
      PROVE  x \in R
  <2>1. PICK k \in 1..(n + 3) : x = c[k]
    BY <1>1 DEF Range
  <2>2. CASE k \in 1..n
    <3>1. ins[k] \in Range(ins)
      BY <1>1, <2>2 DEF Range
    <3>2. x = <<"listen", ins[k]["name"]>>
      BY <1>1, <2>1, <2>2
    <3> QED BY <3>1, <3>2
  <2>3. CASE k \notin 1..n
    <3>1. k = n + 1 \/ k = n + 2 \/ k = n + 3
      BY <1>1, <2>3
    <3> QED BY <1>1, <2>1, <3>1
  <2> QED BY <2>2, <2>3
<1>3. ASSUME NEW x \in R
      PROVE  x \in Range(c)
  <2>1. CASE x \in {<<"listen", input["name"]>> : input \in Range(ins)}
    <3>1. PICK input \in Range(ins) : x = <<"listen", input["name"]>>
      BY <2>1
    <3>2. PICK k \in 1..n : input = ins[k]
      BY <1>1 DEF Range
    <3>3. k \in DOMAIN c /\ c[k] = x
      BY <1>1, <3>1, <3>2
    <3> QED BY <3>3 DEF Range
  <2>2. /\ n + 1 \in DOMAIN c /\ n + 2 \in DOMAIN c /\ n + 3 \in DOMAIN c
    BY <1>1
  <2>3. /\ <<"find", out>> \in Range(c)
        /\ <<"update", out>> \in Range(c)
        /\ <<"drive", out>> \in Range(c)
    BY <1>1, <2>2 DEF Range
  <2> QED BY <2>1, <2>3
<1> QED BY <1>2, <1>3

\* ACPIStates observes four signals and drives two; its event is the one call
\* that names none.
LEMMA ACPIRange ==
  ASSUME NEW E, E = {<<"need", "dbus">>,
           <<"listen", "ACPI_STATE_IS_G3">>, <<"listen", "ACPI_STATE_IS_S5">>,
           <<"listen", "ACPI_STATE_IS_S3">>, <<"listen", "ACPI_STATE_IS_S0">>,
           <<"find", "STATE_REQ_HOST_ON">>, <<"find", "STATE_REQ_CHASSIS_ON">>,
           <<"drive", "STATE_REQ_HOST_ON">>,
           <<"drive", "STATE_REQ_CHASSIS_ON">>}
  PROVE  /\ E \subseteq Range(ACPICalls)
         /\ \A c \in Range(ACPICalls) : c[1] = "event" \/ c \in E
         /\ \E c \in Range(ACPICalls) : c[1] = "event"
<1> SUFFICES ASSUME NEW a, a = ACPICalls
             PROVE  /\ E \subseteq Range(a)
                    /\ \A c \in Range(a) : c[1] = "event" \/ c \in E
                    /\ \E c \in Range(a) : c[1] = "event"
  OBVIOUS
<1>1. 1..10 = {1, 2, 3, 4, 5, 6, 7, 8, 9, 10}
  OBVIOUS
<1>2. DOMAIN a = 1..10 /\ a[10][1] = "event"
  BY ACPIShape
<1>3. Range(a) = {a[k] : k \in 1..10}
  BY <1>2 DEF Range
<1>4. E = {a[1], a[2], a[3], a[4], a[5], a[6], a[7], a[8], a[9]}
  BY ACPIShape
<1>5. Range(a) = E \cup {a[10]}
  BY <1>1, <1>3, <1>4
<1> QED BY <1>2, <1>5

-----------------------------------------------------------------------------
\* The places units are constructed at: those of the files, and one that stands
\* for the fixed part of ACPIStates.
ACPIPlace == <<"acpi", "acpi", 1>>
PlacesOf(s) == IF s = "acpi" THEN {ACPIPlace} ELSE Places(s)
AllPlaces == UNION {PlacesOf(s) : s \in Section}
ItemAt(p) == IF p[2] = "acpi" THEN EmptyMap ELSE NodeAt(p)
CallsAt(p) == Constructor(p[2], ItemAt(p))

\* The places whose constructor posts a handler.
Posting == Places("power_sequencer") \cup (Lines \cap Places("inputs"))

\* A place of a section is the position of a node in a file.
LEMMA PlaceNode ==
  ASSUME NEW s \in Decoded, NEW p \in Places(s)
  PROVE  /\ p[1] \in Yaml
         /\ p[2] = s
         /\ p[3] \in DOMAIN Nodes(contents[p[1]], s)
         /\ p = <<p[1], s, p[3]>>
         /\ NodeAt(p) = Nodes(contents[p[1]], s)[p[3]]
         /\ NodeAt(p) \in Items(s)
<1>0. PICK f \in Yaml :
        p \in {<<f, s, k>> : k \in DOMAIN Nodes(contents[f], s)}
  BY DEF Places
<1>1. PICK k \in DOMAIN Nodes(contents[f], s) : p = <<f, s, k>>
  BY <1>0
<1>2. p[1] = f /\ p[2] = s /\ p[3] = k
  BY <1>1
<1>3. NodeAt(p) = Nodes(contents[f], s)[k]
  BY <1>2 DEF NodeAt
<1>4. NodeAt(p) \in Range(Nodes(contents[f], s))
  BY <1>3 DEF Range
<1>5. NodeAt(p) \in Items(s)
  BY <1>4 DEF Items
<1> QED BY <1>1, <1>2, <1>3, <1>5

\* Every node of a section has a place.
LEMMA ItemPlace ==
  ASSUME NEW s \in Decoded, NEW node \in Items(s)
  PROVE  \E p \in Places(s) : NodeAt(p) = node
<1>1. PICK f \in Yaml : node \in Range(Nodes(contents[f], s))
  BY DEF Items
<1>2. PICK k \in DOMAIN Nodes(contents[f], s) : node = Nodes(contents[f], s)[k]
  BY <1>1 DEF Range
<1>3. <<f, s, k>> \in Places(s)
  BY DEF Places
<1>4. NodeAt(<<f, s, k>>) = node
  BY <1>2 DEF NodeAt
<1> QED BY <1>3, <1>4

\* A place is that of a node, or the one of ACPIStates.
LEMMA PlaceCalls ==
  /\ \A s \in Decoded : \A p \in Places(s) :
       p[2] = s /\ CallsAt(p) = Constructor(s, NodeAt(p)) /\ p \in AllPlaces
  /\ \A p \in AllPlaces :
       p = ACPIPlace \/ \E s \in Decoded : p \in Places(s)
  /\ ACPIPlace \in AllPlaces
  /\ ACPIPlace[2] = "acpi"
  /\ CallsAt(ACPIPlace) = ACPICalls
<1>1. "acpi" \in Section /\ Decoded = Section \ {"acpi"}
  BY SectionFacts
<1>2. ASSUME NEW s \in Decoded, NEW p \in Places(s)
      PROVE  /\ p[2] = s
             /\ CallsAt(p) = Constructor(s, NodeAt(p))
             /\ p \in AllPlaces
  <2>1. p[2] = s
    BY PlaceNode
  <2>2. s # "acpi" /\ s \in Section
    BY <1>1
  <2>3. CallsAt(p) = Constructor(s, NodeAt(p))
    BY <2>1, <2>2 DEF CallsAt, ItemAt
  <2>4. p \in PlacesOf(s)
    BY <2>2 DEF PlacesOf
  <2> QED BY <2>1, <2>2, <2>3, <2>4 DEF AllPlaces
<1>3. ASSUME NEW p \in AllPlaces, p # ACPIPlace
      PROVE  \E s \in Decoded : p \in Places(s)
  <2>1. PICK s \in Section : p \in PlacesOf(s)
    BY DEF AllPlaces
  <2>2. s # "acpi"
    BY <1>3, <2>1 DEF PlacesOf
  <2> QED BY <1>1, <2>1, <2>2 DEF PlacesOf
<1>4. ACPIPlace[2] = "acpi"
  BY DEF ACPIPlace
<1>5. ACPIPlace \in AllPlaces
  BY <1>1 DEF AllPlaces, PlacesOf
<1>6. CallsAt(ACPIPlace) = ACPICalls
  BY <1>4 DEF CallsAt, Constructor
<1> QED BY <1>2, <1>3, <1>4, <1>5, <1>6

\* The constructor of each section.
LEMMA Constructors ==
  ASSUME NEW node
  PROVE  /\ Constructor("immutables", node) = ImmutableCalls(node)
         /\ Constructor("power_sequencer", node) = UnitCalls(Head(node))
         /\ Constructor("inputs", node) = InputCalls(node)
         /\ Constructor("outputs", node) = OutputCalls(node)
         /\ Constructor("regulators", node) = RegulatorCalls(node)
         /\ Constructor("acpi", node) = ACPICalls
BY DEF Constructor

\* The inputs of a unit are a sequence, whatever the YAML node says.
LEMMA UnitInputs ==
  ASSUME contents \in Trees, NEW item \in Items("power_sequencer")
  PROVE  InputsOf(Head(item)) \in Seq(Range(InputsOf(Head(item))))
<1>1. PICK f \in Yaml : item \in Range(Nodes(contents[f], "power_sequencer"))
  BY DEF Items
<1>2. f \in File
  BY <1>1 DEF Yaml
<1> QED BY <1>1, <1>2, TreesAssumption

\* What a call of the constructor at a place is for, in the terms of the files.
Meant(p, c) ==
  /\ c[1] = "listen" => c[2] \in Listened
  /\ c[1] \in {"drive", "keep"} => c[2] \in Sourced
  /\ c[1] = "find" => c[2] \in Listened \cup Sourced
  /\ c[1] \in {"high", "low", "sense"} => c[2] \in Given
  /\ c[1] = "need" => c[2] \in Needed
  /\ c[1] = "request" => p \in Lines /\ c[2] = LineAt(p)
  /\ c[1] \in Posts => p \in Posting
  /\ c[1] \in {"high", "low"} =>
       /\ p \in Places("immutables")
       /\ c[2] = NodeAt(p)["signal_name"]
       /\ c[1] = IF NodeAt(p)["value"] THEN "high" ELSE "low"

\* What the calls of an immutable signal are for.
LEMMA ImmutableMeant ==
  ASSUME NEW p \in Places("immutables"), NEW c \in Range(CallsAt(p))
  PROVE  Meant(p, c)
<1> DEFINE node == NodeAt(p)
           s == node["signal_name"]
<1>1. "immutables" \in Decoded
  BY SectionFacts
<1>2. CallsAt(p) = ImmutableCalls(node) /\ node \in Items("immutables")
  BY <1>1, PlaceCalls, Constructors, PlaceNode
<1>3. s \in Given /\ s \in Sourced
  BY <1>2 DEF Given, Sourced
<1> HIDE DEF node, s
<1>4. c \in {<<"find", s>>, <<IF node["value"] THEN "high" ELSE "low", s>>,
             <<"keep", s>>}
  BY <1>2, ImmutableRange DEF s
<1>5. CASE c = <<"find", s>> \/ c = <<"keep", s>>
  BY <1>3, <1>5 DEF Meant, Posts
<1>6. CASE c = <<IF node["value"] THEN "high" ELSE "low", s>>
  <2>1. c[1] \in {"high", "low"} /\ c[2] = s
        /\ c[1] = IF node["value"] THEN "high" ELSE "low"
    BY <1>6
  <2> QED BY <1>3, <2>1 DEF Meant, Posts, node, s
<1> QED BY <1>4, <1>5, <1>6

\* What the calls of an input are for.
LEMMA InputMeant ==
  ASSUME NEW p \in Places("inputs"), NEW c \in Range(CallsAt(p))
  PROVE  Meant(p, c)
<1>1. "inputs" \in Decoded
  BY SectionFacts
<1> SUFFICES ASSUME NEW node, node = NodeAt(p),
                    NEW s, s = node["signal_name"], NEW l, l = node["name"]
             PROVE  Meant(p, c)
  OBVIOUS
<1>2. CallsAt(p) = InputCalls(node) /\ node \in Items("inputs")
  BY <1>1, PlaceCalls, Constructors, PlaceNode
<1>3. s \in Sourced
  BY <1>2 DEF Sourced
<1>4. CASE node["type"] = "gpio"
  <2>1. p \in Lines /\ l = LineAt(p)
    BY <1>4 DEF Lines, LineAt
  <2>2. l \in Needed
    BY <2>1 DEF Needed
  <2>3. p \in Posting
    BY <2>1 DEF Posting
  <2>4. c \in {<<"need", l>>, <<"find", s>>, <<"request", l>>, <<"read", s>>,
               <<"drive", s>>}
    BY <1>2, <1>4, InputRange
  <2> QED BY <1>3, <2>1, <2>2, <2>3, <2>4 DEF Meant, Posts
<1>5. CASE node["type"] # "gpio"
  <2>1. c \in {<<"find", s>>, <<"drive", s>>}
    BY <1>2, <1>5, InputRange
  <2> QED BY <1>3, <2>1 DEF Meant, Posts
<1> QED BY <1>4, <1>5

\* What the calls of an output are for.
LEMMA OutputMeant ==
  ASSUME NEW p \in Places("outputs"), NEW c \in Range(CallsAt(p))
  PROVE  Meant(p, c)
<1>1. "outputs" \in Decoded
  BY SectionFacts
<1> SUFFICES ASSUME NEW node, node = NodeAt(p),
                    NEW s, s = node["signal_name"], NEW l, l = node["name"]
             PROVE  Meant(p, c)
  OBVIOUS
<1>2. CallsAt(p) = OutputCalls(node) /\ node \in Items("outputs")
  BY <1>1, PlaceCalls, Constructors, PlaceNode
<1>3. s \in Listened
  BY <1>2 DEF Listened
<1>4. CASE node["type"] = "gpio"
  <2>1. p \in Lines /\ l = LineAt(p)
    BY <1>4 DEF Lines, LineAt
  <2>2. l \in Needed
    BY <2>1 DEF Needed
  <2>3. c \in {<<"need", l>>, <<"listen", s>>, <<"request", l>>}
    BY <1>2, <1>4, OutputRange
  <2> QED BY <1>3, <2>1, <2>2, <2>3 DEF Meant, Posts
<1>5. CASE node["type"] # "gpio"
  <2>1. c = <<"listen", s>>
    BY <1>2, <1>5, OutputRange
  <2> QED BY <1>3, <2>1 DEF Meant, Posts
<1> QED BY <1>4, <1>5

\* What the calls of a regulator are for.
LEMMA RegulatorMeant ==
  ASSUME NEW p \in Places("regulators"), NEW c \in Range(CallsAt(p))
  PROVE  Meant(p, c)
<1>1. "regulators" \in Decoded
  BY SectionFacts
<1> SUFFICES ASSUME NEW node, node = NodeAt(p), NEW l, l = node["name"],
                    NEW rail, rail = RailSignal[node["name"]]
             PROVE  Meant(p, c)
  OBVIOUS
<1>2. CallsAt(p) = RegulatorCalls(node) /\ node \in Items("regulators")
  BY <1>1, PlaceCalls, Constructors, PlaceNode
<1>3. rail \in Rails
  BY <1>2 DEF Rails
<1>4. rail.On \in Listened
  BY <1>3 DEF Listened
<1>5. {rail.Enabled, rail.Fault, rail.PowerGood} \subseteq Given
  BY <1>3 DEF Given
<1>6. Given \subseteq Sourced
  BY DEF Sourced
<1>7. l \in Needed
  BY <1>2 DEF Needed
<1>8. c \in {<<"listen", rail.On>>, <<"find", rail.Enabled>>,
             <<"find", rail.Fault>>, <<"find", rail.PowerGood>>,
             <<"need", l>>, <<"sense", rail.Enabled>>,
             <<"sense", rail.PowerGood>>, <<"sense", rail.Fault>>,
             <<"drive", rail.Enabled>>, <<"drive", rail.PowerGood>>,
             <<"drive", rail.Fault>>}
  BY <1>2, RegulatorRange
<1> SUFFICES ASSUME NEW o, o = rail.On, NEW e, e = rail.Enabled,
                    NEW f, f = rail.Fault, NEW g, g = rail.PowerGood
             PROVE  Meant(p, c)
  OBVIOUS
<1>9. /\ o \in Listened
      /\ e \in Given /\ f \in Given /\ g \in Given
      /\ e \in Sourced /\ f \in Sourced /\ g \in Sourced
  BY <1>4, <1>5, <1>6
<1>10. c \in {<<"listen", o>>, <<"find", e>>, <<"find", f>>, <<"find", g>>,
              <<"need", l>>, <<"sense", e>>, <<"sense", g>>, <<"sense", f>>,
              <<"drive", e>>, <<"drive", g>>, <<"drive", f>>}
  BY <1>8
<1> QED BY <1>7, <1>9, <1>10 DEF Meant, Posts

\* What the calls of a unit of logic are for.
LEMMA UnitMeant ==
  ASSUME contents \in Trees,
         NEW p \in Places("power_sequencer"), NEW c \in Range(CallsAt(p))
  PROVE  Meant(p, c)
<1>1. "power_sequencer" \in Decoded
  BY SectionFacts
<1> SUFFICES ASSUME NEW item, item = NodeAt(p), NEW unit, unit = Head(item),
                    NEW out, out = unit["out"]["name"]
             PROVE  Meant(p, c)
  OBVIOUS
<1>2. CallsAt(p) = UnitCalls(unit) /\ item \in Items("power_sequencer")
  BY <1>1, PlaceCalls, Constructors, PlaceNode
<1>3. unit \in Units
  BY <1>2 DEF Units
<1>4. out \in Sourced
  BY <1>3 DEF Sourced
<1>5. p \in Posting
  BY DEF Posting
<1>6. InputsOf(unit) \in Seq(Range(InputsOf(unit)))
  BY <1>2, UnitInputs
<1>7. c \in {<<"listen", input["name"]>> : input \in Range(InputsOf(unit))}
           \cup {<<"find", out>>, <<"update", out>>, <<"drive", out>>}
  BY <1>2, <1>6, UnitRange
<1>8. CASE c \in {<<"listen", input["name"]>> : input \in Range(InputsOf(unit))}
  <2>1. PICK input \in Range(InputsOf(unit)) : c = <<"listen", input["name"]>>
    BY <1>8
  <2>2. input["name"] \in Listened
    BY <1>3 DEF Listened
  <2> QED BY <2>1, <2>2 DEF Meant, Posts
<1>9. CASE c \in {<<"find", out>>, <<"update", out>>, <<"drive", out>>}
  BY <1>4, <1>5, <1>9 DEF Meant, Posts
<1> QED BY <1>7, <1>8, <1>9

\* What the calls of ACPIStates are for.
LEMMA ACPIMeant ==
  ASSUME NEW c \in Range(ACPICalls)
  PROVE  Meant(ACPIPlace, c)
<1>1. Range(ObservedStates) = {"ACPI_STATE_IS_G3", "ACPI_STATE_IS_S5",
                               "ACPI_STATE_IS_S3", "ACPI_STATE_IS_S0"}
  <2>1. 1..4 = {1, 2, 3, 4}
    OBVIOUS
  <2> QED BY <2>1 DEF ObservedStates, Range
<1>2. Range(ObservedStates) \subseteq Listened
  BY DEF Listened
<1>3. {"STATE_REQ_HOST_ON", "STATE_REQ_CHASSIS_ON"} \subseteq Sourced
  BY DEF Sourced
<1>4. "dbus" \in Needed
  BY DEF Needed
<1>5. CASE c[1] = "event"
  BY <1>5 DEF Meant, Posts
<1>6. CASE c[1] # "event"
  <2>1. c \in {<<"need", "dbus">>,
           <<"listen", "ACPI_STATE_IS_G3">>, <<"listen", "ACPI_STATE_IS_S5">>,
           <<"listen", "ACPI_STATE_IS_S3">>, <<"listen", "ACPI_STATE_IS_S0">>,
           <<"find", "STATE_REQ_HOST_ON">>, <<"find", "STATE_REQ_CHASSIS_ON">>,
           <<"drive", "STATE_REQ_HOST_ON">>,
           <<"drive", "STATE_REQ_CHASSIS_ON">>}
    BY <1>6, ACPIRange
  <2>2. /\ "ACPI_STATE_IS_G3" \in Listened /\ "ACPI_STATE_IS_S5" \in Listened
        /\ "ACPI_STATE_IS_S3" \in Listened /\ "ACPI_STATE_IS_S0" \in Listened
        /\ "STATE_REQ_HOST_ON" \in Sourced
        /\ "STATE_REQ_CHASSIS_ON" \in Sourced
    BY <1>1, <1>2, <1>3
  <2> QED BY <1>4, <2>1, <2>2 DEF Meant, Posts
<1> QED BY <1>5, <1>6

\* No constructor calls for anything but what the files name.
LEMMA CallMeaning ==
  ASSUME contents \in Trees, NEW p \in AllPlaces, NEW c \in Range(CallsAt(p))
  PROVE  Meant(p, c)
<1>1. CASE p = ACPIPlace
  BY <1>1, ACPIMeant, PlaceCalls
<1>2. CASE p # ACPIPlace
  <2>1. PICK s \in Decoded : p \in Places(s)
    BY <1>2, PlaceCalls
  <2>2. s \in {"immutables", "power_sequencer", "inputs", "outputs",
               "regulators"}
    BY SectionFacts
  <2> QED
    BY <2>1, <2>2, ImmutableMeant, UnitMeant, InputMeant, OutputMeant,
       RegulatorMeant
<1> QED BY <1>1, <1>2

\* Every constructor makes its calls in order.
LEMMA PlaceOrder ==
  ASSUME contents \in Trees, NEW p \in AllPlaces
  PROVE  Ordered(CallsAt(p))
<1>1. CASE p = ACPIPlace
  BY <1>1, PlaceCalls, ACPIOrder
<1>2. CASE p # ACPIPlace
  <2>1. PICK s \in Decoded : p \in Places(s)
    BY <1>2, PlaceCalls
  <2>2. CallsAt(p) = Constructor(s, NodeAt(p)) /\ NodeAt(p) \in Items(s)
    BY <2>1, PlaceCalls, PlaceNode
  <2>3. s = "power_sequencer" => Ordered(UnitCalls(Head(NodeAt(p))))
    BY <2>2, UnitInputs, UnitOrder
  <2>4. s \in {"immutables", "power_sequencer", "inputs", "outputs",
               "regulators"}
    BY SectionFacts
  <2> QED
    BY <2>2, <2>3, <2>4, Constructors, ImmutableOrder, InputOrder, OutputOrder,
       RegulatorOrder
<1> QED BY <1>1, <1>2

\* Conversely, every name in the files is asked for by some constructor.
LEMMA ListenedAsked ==
  ASSUME contents \in Trees, NEW s \in Listened
  PROVE  \E p \in AllPlaces : <<"listen", s>> \in Range(CallsAt(p))
<1>0. /\ "outputs" \in Decoded /\ "regulators" \in Decoded
      /\ "power_sequencer" \in Decoded
  BY SectionFacts
<1>1. CASE s \in Range(ObservedStates)
  <2>1. 1..4 = {1, 2, 3, 4}
    OBVIOUS
  <2>2. s \in {"ACPI_STATE_IS_G3", "ACPI_STATE_IS_S5", "ACPI_STATE_IS_S3",
               "ACPI_STATE_IS_S0"}
    BY <1>1, <2>1 DEF ObservedStates, Range
  <2>3. {<<"listen", "ACPI_STATE_IS_G3">>, <<"listen", "ACPI_STATE_IS_S5">>,
         <<"listen", "ACPI_STATE_IS_S3">>, <<"listen", "ACPI_STATE_IS_S0">>}
          \subseteq Range(ACPICalls)
    BY ACPIRange
  <2>4. <<"listen", s>> \in Range(ACPICalls)
    BY <2>2, <2>3
  <2> QED BY <2>4, PlaceCalls
<1>2. CASE s \in {node["signal_name"] : node \in Items("outputs")}
  <2>1. PICK node \in Items("outputs") : s = node["signal_name"]
    BY <1>2
  <2>2. PICK p \in Places("outputs") : NodeAt(p) = node
    BY <1>0, ItemPlace
  <2>3. p \in AllPlaces /\ CallsAt(p) = OutputCalls(node)
    BY <1>0, <2>2, PlaceCalls, Constructors
  <2>4. <<"listen", s>> \in Range(OutputCalls(node))
    BY <2>1, OutputRange
  <2> QED BY <2>3, <2>4
<1>3. CASE s \in {rail.On : rail \in Rails}
  <2>1. PICK rail \in Rails : s = rail.On
    BY <1>3
  <2>2. PICK node \in Items("regulators") : rail = RailSignal[node["name"]]
    BY DEF Rails
  <2>3. PICK p \in Places("regulators") : NodeAt(p) = node
    BY <1>0, ItemPlace
  <2>4. p \in AllPlaces /\ CallsAt(p) = RegulatorCalls(node)
    BY <1>0, <2>3, PlaceCalls, Constructors
  <2>5. <<"listen", rail.On>> \in Range(RegulatorCalls(node))
    BY <2>2, RegulatorRange
  <2> QED BY <2>1, <2>4, <2>5
<1>4. CASE s \in UNION {{input["name"] : input \in Range(InputsOf(unit))} :
                          unit \in Units}
  <2>1. PICK unit \in Units :
          s \in {input["name"] : input \in Range(InputsOf(unit))}
    BY <1>4
  <2>2. PICK input \in Range(InputsOf(unit)) : s = input["name"]
    BY <2>1
  <2>3. PICK item \in Items("power_sequencer") : unit = Head(item)
    BY DEF Units
  <2>4. PICK p \in Places("power_sequencer") : NodeAt(p) = item
    BY <1>0, ItemPlace
  <2>5. p \in AllPlaces /\ CallsAt(p) = UnitCalls(unit)
    BY <1>0, <2>3, <2>4, PlaceCalls, Constructors
  <2>6. InputsOf(unit) \in Seq(Range(InputsOf(unit)))
    BY <2>3, UnitInputs
  <2>7. <<"listen", input["name"]>> \in Range(UnitCalls(unit))
    BY <2>6, UnitRange
  <2> QED BY <2>2, <2>5, <2>7
<1> QED BY <1>1, <1>2, <1>3, <1>4 DEF Listened

\* A signal with a driver, or an immutable one, is driven or kept by some
\* constructor.
LEMMA SourcedAsked ==
  ASSUME contents \in Trees, NEW s \in Sourced
  PROVE  \E p \in AllPlaces, op \in {"drive", "keep"} :
           <<op, s>> \in Range(CallsAt(p))
<1>0. /\ "immutables" \in Decoded /\ "regulators" \in Decoded
      /\ "power_sequencer" \in Decoded /\ "inputs" \in Decoded
  BY SectionFacts
<1>1. CASE s \in {"STATE_REQ_HOST_ON", "STATE_REQ_CHASSIS_ON"}
  <2>1. <<"drive", s>> \in Range(ACPICalls)
    BY <1>1, ACPIRange
  <2> QED BY <2>1, PlaceCalls
<1>2. CASE s \in {node["signal_name"] : node \in Items("immutables")}
  <2>1. PICK node \in Items("immutables") : s = node["signal_name"]
    BY <1>2
  <2>2. PICK p \in Places("immutables") : NodeAt(p) = node
    BY <1>0, ItemPlace
  <2>3. p \in AllPlaces /\ CallsAt(p) = ImmutableCalls(node)
    BY <1>0, <2>2, PlaceCalls, Constructors
  <2>4. <<"keep", s>> \in Range(ImmutableCalls(node))
    BY <2>1, ImmutableRange
  <2> QED BY <2>3, <2>4
<1>3. CASE s \in UNION {{rail.Enabled, rail.Fault, rail.PowerGood} :
                          rail \in Rails}
  <2>1. PICK rail \in Rails : s \in {rail.Enabled, rail.Fault, rail.PowerGood}
    BY <1>3
  <2>2. PICK node \in Items("regulators") : rail = RailSignal[node["name"]]
    BY DEF Rails
  <2>3. PICK p \in Places("regulators") : NodeAt(p) = node
    BY <1>0, ItemPlace
  <2>4. p \in AllPlaces /\ CallsAt(p) = RegulatorCalls(node)
    BY <1>0, <2>3, PlaceCalls, Constructors
  <2>5. {<<"drive", rail.Enabled>>, <<"drive", rail.PowerGood>>,
         <<"drive", rail.Fault>>} \subseteq Range(RegulatorCalls(node))
    BY <2>2, RegulatorRange
  <2> QED BY <2>1, <2>4, <2>5
<1>4. CASE s \in {node["signal_name"] : node \in Items("inputs")}
  <2>1. PICK node \in Items("inputs") : s = node["signal_name"]
    BY <1>4
  <2>2. PICK p \in Places("inputs") : NodeAt(p) = node
    BY <1>0, ItemPlace
  <2>3. p \in AllPlaces /\ CallsAt(p) = InputCalls(node)
    BY <1>0, <2>2, PlaceCalls, Constructors
  <2>4. <<"drive", s>> \in Range(InputCalls(node))
    BY <2>1, InputRange
  <2> QED BY <2>3, <2>4
<1>5. CASE s \in {unit["out"]["name"] : unit \in Units}
  <2>1. PICK unit \in Units : s = unit["out"]["name"]
    BY <1>5
  <2>2. PICK item \in Items("power_sequencer") : unit = Head(item)
    BY DEF Units
  <2>3. PICK p \in Places("power_sequencer") : NodeAt(p) = item
    BY <1>0, ItemPlace
  <2>4. p \in AllPlaces /\ CallsAt(p) = UnitCalls(unit)
    BY <1>0, <2>2, <2>3, PlaceCalls, Constructors
  <2>5. InputsOf(unit) \in Seq(Range(InputsOf(unit)))
    BY <2>2, UnitInputs
  <2>6. <<"drive", s>> \in Range(UnitCalls(unit))
    BY <2>1, <2>5, UnitRange
  <2> QED BY <2>4, <2>6
<1> QED BY <1>1, <1>2, <1>3, <1>4, <1>5 DEF Sourced, Given

\* Hardware that the files name is looked for by some constructor.
LEMMA NeededAsked ==
  ASSUME NEW l \in Needed
  PROVE  \E p \in AllPlaces : <<"need", l>> \in Range(CallsAt(p))
<1>0. "inputs" \in Decoded /\ "outputs" \in Decoded /\ "regulators" \in Decoded
  BY SectionFacts
<1>1. CASE l = "dbus"
  <2>1. <<"need", "dbus">> \in Range(ACPICalls)
    BY ACPIRange
  <2> QED BY <1>1, <2>1, PlaceCalls
<1>2. CASE l \in {LineAt(place) : place \in Lines}
  <2>1. PICK p \in Lines : l = LineAt(p)
    BY <1>2
  <2>2. NodeAt(p)["type"] = "gpio" /\ NodeAt(p)["name"] = l
    BY <2>1 DEF Lines, LineAt
  <2>3. CASE p \in Places("inputs")
    <3>1. p \in AllPlaces /\ CallsAt(p) = InputCalls(NodeAt(p))
      BY <1>0, <2>3, PlaceCalls, Constructors
    <3>2. <<"need", l>> \in Range(InputCalls(NodeAt(p)))
      BY <2>2, InputRange
    <3> QED BY <3>1, <3>2
  <2>4. CASE p \in Places("outputs")
    <3>1. p \in AllPlaces /\ CallsAt(p) = OutputCalls(NodeAt(p))
      BY <1>0, <2>4, PlaceCalls, Constructors
    <3>2. <<"need", l>> \in Range(OutputCalls(NodeAt(p)))
      BY <2>2, OutputRange
    <3> QED BY <3>1, <3>2
  <2> QED BY <2>3, <2>4 DEF Lines
<1>3. CASE l \in {node["name"] : node \in Items("regulators")}
  <2>1. PICK node \in Items("regulators") : l = node["name"]
    BY <1>3
  <2>2. PICK p \in Places("regulators") : NodeAt(p) = node
    BY <1>0, ItemPlace
  <2>3. p \in AllPlaces /\ CallsAt(p) = RegulatorCalls(node)
    BY <1>0, <2>2, PlaceCalls, Constructors
  <2>4. <<"need", l>> \in Range(RegulatorCalls(node))
    BY <2>1, RegulatorRange
  <2> QED BY <2>3, <2>4
<1> QED BY <1>1, <1>2, <1>3 DEF Needed

\* A line that the files name is requested by the constructor at its place.
LEMMA LineAsked ==
  ASSUME NEW p \in Lines
  PROVE  p \in AllPlaces /\ <<"request", LineAt(p)>> \in Range(CallsAt(p))
<1>0. "inputs" \in Decoded /\ "outputs" \in Decoded
  BY SectionFacts
<1>1. NodeAt(p)["type"] = "gpio" /\ NodeAt(p)["name"] = LineAt(p)
  BY DEF Lines, LineAt
<1>2. CASE p \in Places("inputs")
  <2>1. p \in AllPlaces /\ CallsAt(p) = InputCalls(NodeAt(p))
    BY <1>0, <1>2, PlaceCalls, Constructors
  <2> QED BY <1>1, <2>1, InputRange
<1>3. CASE p \in Places("outputs")
  <2>1. p \in AllPlaces /\ CallsAt(p) = OutputCalls(NodeAt(p))
    BY <1>0, <1>3, PlaceCalls, Constructors
  <2> QED BY <1>1, <2>1, OutputRange
<1> QED BY <1>2, <1>3 DEF Lines

\* A unit of logic, and an input line, post a handler.
LEMMA PostingAsked ==
  ASSUME contents \in Trees, NEW p \in Posting
  PROVE  p \in AllPlaces /\ \E c \in Range(CallsAt(p)) : c[1] \in Posts
<1>0. "inputs" \in Decoded /\ "power_sequencer" \in Decoded
  BY SectionFacts
<1>1. CASE p \in Places("power_sequencer")
  <2>1. PICK unit : unit = Head(NodeAt(p))
    OBVIOUS
  <2>2. PICK out : out = unit["out"]["name"]
    OBVIOUS
  <2>3. p \in AllPlaces /\ CallsAt(p) = UnitCalls(unit)
    BY <1>0, <1>1, <2>1, PlaceCalls, Constructors
  <2>4. InputsOf(unit) \in Seq(Range(InputsOf(unit)))
    BY <1>0, <1>1, <2>1, PlaceNode, UnitInputs
  <2>5. <<"update", out>> \in Range(UnitCalls(unit))
    BY <2>2, <2>4, UnitRange
  <2> QED BY <2>3, <2>5 DEF Posts
<1>2. CASE p \in Lines \cap Places("inputs")
  <2>1. PICK s : s = NodeAt(p)["signal_name"]
    OBVIOUS
  <2>2. p \in AllPlaces /\ CallsAt(p) = InputCalls(NodeAt(p))
    BY <1>0, <1>2, PlaceCalls, Constructors
  <2>3. NodeAt(p)["type"] = "gpio"
    BY <1>2 DEF Lines
  <2>4. <<"read", s>> \in Range(InputCalls(NodeAt(p)))
    BY <2>1, <2>3, InputRange
  <2> QED BY <2>2, <2>4 DEF Posts
<1> QED BY <1>1, <1>2 DEF Posting

-----------------------------------------------------------------------------
\* What is left of a constructor, c: what it sets is in S or created before,
\* and the last three parts of Ordered.
Prepared(c, S) ==
  \A k \in DOMAIN c : c[k][1] \in Sets =>
    \/ c[k][2] \in S
    \/ \E j \in 1..(k - 1) : c[j][1] \in Creates /\ c[j][2] = c[k][2]

Tidy(c) ==
  /\ \A k \in DOMAIN c : c[k][1] = "sense" =>
       \E j \in DOMAIN c : j > k /\ c[j] = <<"drive", c[k][2]>>
  /\ \A j, k \in DOMAIN c : c[j][1] \in Posts /\ c[k][1] \in Posts => j = k
  /\ \A j, k \in DOMAIN c : c[j][1] = "request" /\ c[k][1] = "request" => j = k

\* What holds of a constructor that is entered, whatever was created before.
LEMMA OrderedFacts ==
  ASSUME NEW c, Ordered(c), NEW S
  PROVE  Prepared(c, S) /\ Tidy(c)
<1>1. Prepared(c, S)
  BY DEF Ordered, Prepared
<1>2. Tidy(c)
  BY DEF Ordered, Tidy
<1> QED BY <1>1, <1>2

\* The calls that are left when the first of them returns.
LEMMA TailShape ==
  ASSUME NEW S, NEW c \in Seq(S), c # <<>>, NEW t, t = Tail(c),
         NEW n, n = Len(c)
  PROVE  /\ t \in Seq(S)
         /\ n \in Nat /\ n >= 1
         /\ DOMAIN c = 1..n
         /\ DOMAIN t = 1..(n - 1)
         /\ \A k \in 1..(n - 1) : t[k] = c[k + 1]
         /\ Head(c) = c[1]
         /\ c[1] \in S
         /\ \A x : x \in Range(c) <=> x = c[1] \/ x \in Range(t)
<1>1. /\ t \in Seq(S) /\ Head(c) = c[1] /\ Head(c) \in S
      /\ Len(t) = Len(c) - 1
      /\ \A k \in 1..Len(t) : t[k] = c[k + 1]
  BY HeadTailProperties
<1>2. n \in Nat /\ DOMAIN c = 1..n /\ DOMAIN t = 1..Len(t)
  BY <1>1, LenProperties
<1>3. n >= 1
  BY <1>2, EmptySeq
<1>4. DOMAIN t = 1..(n - 1) /\ \A k \in 1..(n - 1) : t[k] = c[k + 1]
  BY <1>1, <1>2
<1>5. ASSUME NEW x \in Range(c)
      PROVE  x \in {c[1]} \cup Range(t)
  <2>1. PICK k \in 1..n : x = c[k]
    BY <1>2 DEF Range
  <2>2. CASE k = 1
    BY <2>1, <2>2
  <2>3. CASE k # 1
    <3>1. k - 1 \in 1..(n - 1) /\ (k - 1) + 1 = k
      BY <1>2, <2>3
    <3>2. t[k - 1] = c[k]
      BY <1>4, <3>1
    <3> QED BY <1>4, <2>1, <3>1, <3>2 DEF Range
  <2> QED BY <2>2, <2>3
<1>6. ASSUME NEW x \in {c[1]} \cup Range(t)
      PROVE  x \in Range(c)
  <2>1. CASE x = c[1]
    <3>1. 1 \in DOMAIN c
      BY <1>2, <1>3
    <3> QED BY <2>1, <3>1 DEF Range
  <2>2. CASE x \in Range(t)
    <3>1. PICK k \in 1..(n - 1) : x = t[k]
      BY <1>4, <2>2 DEF Range
    <3>2. k + 1 \in DOMAIN c /\ x = c[k + 1]
      BY <1>2, <1>4, <3>1
    <3> QED BY <3>2 DEF Range
  <2> QED BY <1>6, <2>1, <2>2
<1>7. \A x : x \in Range(c) <=> x = c[1] \/ x \in Range(t)
  BY <1>5, <1>6
<1> QED BY <1>1, <1>2, <1>3, <1>4, <1>7

\* The same as sets.
LEMMA TailRange ==
  ASSUME NEW S, NEW c \in Seq(S), c # <<>>
  PROVE  Range(c) = {c[1]} \cup Range(Tail(c))
<1> SUFFICES ASSUME NEW t, t = Tail(c), NEW n, n = Len(c)
             PROVE  Range(c) = {c[1]} \cup Range(t)
  OBVIOUS
<1>1. \A x : x \in Range(c) <=> x = c[1] \/ x \in Range(t)
  BY TailShape
<1> QED BY <1>1

\* A tail keeps the order, and what the first call was alone in.
LEMMA TailTidy ==
  ASSUME NEW S, NEW c \in Seq(S), c # <<>>, Tidy(c), NEW t, t = Tail(c)
  PROVE  /\ Tidy(t)
         /\ c[1][1] = "sense" => <<"drive", c[1][2]>> \in Range(t)
         /\ c[1][1] \in Posts => \A x \in Range(t) : x[1] \notin Posts
         /\ c[1][1] = "request" => \A x \in Range(t) : x[1] # "request"
<1> DEFINE n == Len(c)
<1>1. /\ n \in Nat /\ n >= 1
      /\ DOMAIN c = 1..n /\ DOMAIN t = 1..(n - 1)
      /\ \A k \in 1..(n - 1) : t[k] = c[k + 1]
  BY TailShape
<1> HIDE DEF n
<1>2. \A k \in DOMAIN t : k + 1 \in DOMAIN c /\ t[k] = c[k + 1] /\ k \in Nat
  BY <1>1
<1>3. 1 \in DOMAIN c
  BY <1>1
<1>4. ASSUME NEW k \in DOMAIN c, c[k][1] = "sense"
      PROVE  \E j \in DOMAIN t : j > k - 1 /\ t[j] = <<"drive", c[k][2]>>
  <2>1. PICK j \in DOMAIN c : j > k /\ c[j] = <<"drive", c[k][2]>>
    BY <1>4 DEF Tidy
  <2>2. j - 1 \in 1..(n - 1) /\ (j - 1) + 1 = j /\ j - 1 > k - 1
    BY <1>1, <2>1
  <2>3. t[j - 1] = c[j]
    BY <1>1, <2>2
  <2> QED BY <1>1, <2>1, <2>2, <2>3
<1>5. ASSUME NEW k \in DOMAIN t, t[k][1] = "sense"
      PROVE  \E j \in DOMAIN t : j > k /\ t[j] = <<"drive", t[k][2]>>
  <2>1. k + 1 \in DOMAIN c /\ t[k] = c[k + 1] /\ (k + 1) - 1 = k
    BY <1>2
  <2> QED BY <1>4, <1>5, <2>1
<1>6. c[1][1] = "sense" => <<"drive", c[1][2]>> \in Range(t)
  BY <1>3, <1>4 DEF Range
<1>7. /\ \A j, k \in DOMAIN t : t[j][1] \in Posts /\ t[k][1] \in Posts => j = k
      /\ \A j, k \in DOMAIN t :
           t[j][1] = "request" /\ t[k][1] = "request" => j = k
  <2>1. ASSUME NEW j \in DOMAIN t, NEW k \in DOMAIN t, j + 1 = k + 1
        PROVE  j = k
    BY <1>2, <2>1
  <2> QED BY <1>2, <2>1 DEF Tidy
<1>8. ASSUME NEW x \in Range(t)
      PROVE  /\ c[1][1] \in Posts => x[1] \notin Posts
             /\ c[1][1] = "request" => x[1] # "request"
  <2>1. PICK k \in DOMAIN t : x = t[k]
    BY DEF Range
  <2>2. k + 1 \in DOMAIN c /\ x = c[k + 1] /\ k + 1 # 1
    BY <1>1, <1>2, <2>1
  <2> QED BY <1>3, <2>2 DEF Tidy
<1>9. Tidy(t)
  BY <1>5, <1>7 DEF Tidy
<1> QED BY <1>6, <1>8, <1>9

\* A signal that the first call sets exists, and those it creates exist for the
\* calls after it.
LEMMA TailPrepared ==
  ASSUME NEW S, NEW c \in Seq(S), c # <<>>, NEW t, t = Tail(c),
         NEW A, NEW B, A \subseteq B, Prepared(c, A),
         c[1][1] \in Creates => c[1][2] \in B
  PROVE  /\ c[1][1] \in Sets => c[1][2] \in A
         /\ Prepared(t, B)
<1> DEFINE n == Len(c)
<1>1. /\ n \in Nat /\ n >= 1
      /\ DOMAIN c = 1..n /\ DOMAIN t = 1..(n - 1)
      /\ \A k \in 1..(n - 1) : t[k] = c[k + 1]
  BY TailShape
<1> HIDE DEF n
<1>2. c[1][1] \in Sets => c[1][2] \in A
  <2>1. 1 \in DOMAIN c /\ 1..(1 - 1) = {}
    BY <1>1
  <2> QED BY <2>1 DEF Prepared
<1>3. ASSUME NEW k \in DOMAIN t, t[k][1] \in Sets, t[k][2] \notin B
      PROVE  \E j \in 1..(k - 1) : t[j][1] \in Creates /\ t[j][2] = t[k][2]
  <2>1. k + 1 \in DOMAIN c /\ t[k] = c[k + 1] /\ (k + 1) - 1 = k
    BY <1>1
  <2>2. PICK j \in 1..k : c[j][1] \in Creates /\ c[j][2] = t[k][2]
    BY <1>3, <2>1 DEF Prepared
  <2>3. j # 1
    BY <1>3, <2>2
  <2>4. j - 1 \in 1..(k - 1) /\ j - 1 \in 1..(n - 1) /\ (j - 1) + 1 = j
    BY <1>1, <2>3
  <2>5. t[j - 1] = c[j]
    BY <1>1, <2>4
  <2> QED BY <2>2, <2>4, <2>5
<1> QED BY <1>2, <1>3 DEF Prepared

\* A list that grows, element by element.
LEMMA AppendShape ==
  ASSUME NEW S, NEW c \in Seq(S), NEW e \in S, NEW t, t = Append(c, e),
         NEW n, n = Len(c)
  PROVE  /\ t \in Seq(S)
         /\ n \in Nat /\ DOMAIN c = 1..n
         /\ Len(t) = n + 1 /\ DOMAIN t = 1..(n + 1)
         /\ \A k \in 1..n : t[k] = c[k]
         /\ t[n + 1] = e
<1>1. /\ t \in Seq(S) /\ Len(t) = n + 1
      /\ \A k \in 1..n : t[k] = c[k]
      /\ t[n + 1] = e
  BY AppendProperties
<1>2. n \in Nat /\ DOMAIN c = 1..n /\ DOMAIN t = 1..Len(t)
  BY <1>1, LenProperties
<1>3. DOMAIN t = 1..(n + 1)
  BY <1>1, <1>2
<1> QED BY <1>1, <1>2, <1>3

\* A list without repetition grows by something new.
LEMMA AppendOnce ==
  ASSUME NEW S, NEW c \in Seq(S), NEW e \in S, e \notin Range(c),
         IsInjective(c)
  PROVE  IsInjective(Append(c, e))
<1> SUFFICES ASSUME NEW t, t = Append(c, e), NEW n, n = Len(c)
             PROVE  IsInjective(t)
  OBVIOUS
<1>1. /\ n \in Nat /\ DOMAIN c = 1..n /\ DOMAIN t = 1..(n + 1)
      /\ \A k \in 1..n : t[k] = c[k]
      /\ t[n + 1] = e
  BY AppendShape
<1>2. \A k \in 1..(n + 1) : k \in 1..n \/ k = n + 1
  BY <1>1
<1>3. ASSUME NEW a \in DOMAIN t, NEW b \in DOMAIN t, t[a] = t[b]
      PROVE  a = b
  <2>1. CASE a \in 1..n /\ b \in 1..n
    <3>1. c[a] = c[b] /\ a \in DOMAIN c /\ b \in DOMAIN c
      BY <1>1, <1>3, <2>1
    <3> QED BY <3>1 DEF IsInjective
  <2>2. CASE a \in 1..n /\ b = n + 1
    <3>1. c[a] = e /\ a \in DOMAIN c
      BY <1>1, <1>3, <2>2
    <3> QED BY <3>1 DEF Range
  <2>3. CASE a = n + 1 /\ b \in 1..n
    <3>1. c[b] = e /\ b \in DOMAIN c
      BY <1>1, <1>3, <2>3
    <3> QED BY <3>1 DEF Range
  <2> QED BY <1>1, <1>2, <2>1, <2>2, <2>3
<1> QED BY <1>3 DEF IsInjective

\* The same as a set.
LEMMA AppendRange ==
  ASSUME NEW S, NEW c \in Seq(S), NEW e \in S
  PROVE  \A x : x \in Range(Append(c, e)) <=> x \in Range(c) \/ x = e
<1> SUFFICES ASSUME NEW t, t = Append(c, e), NEW n, n = Len(c)
             PROVE  \A x : x \in Range(t) <=> x \in Range(c) \/ x = e
  OBVIOUS
<1>1. /\ n \in Nat /\ DOMAIN c = 1..n /\ DOMAIN t = 1..(n + 1)
      /\ \A k \in 1..n : t[k] = c[k]
      /\ t[n + 1] = e
  BY AppendShape
<1>2. n \in Nat /\ DOMAIN c = 1..n
  BY <1>1
<1>3. DOMAIN t = 1..(n + 1)
  BY <1>1
<1>4. \A k \in 1..(n + 1) : k \in 1..n \/ k = n + 1
  BY <1>2
<1>5. 1..n \subseteq 1..(n + 1) /\ n + 1 \in 1..(n + 1)
  BY <1>2
<1>6. \A x : x \in Range(t) <=> x \in Range(c) \/ x = e
  <2>1. ASSUME NEW x \in Range(t)
        PROVE  x \in Range(c) \cup {e}
    <3>1. PICK k \in 1..(n + 1) : x = t[k]
      BY <1>3 DEF Range
    <3>2. CASE k \in 1..n
      BY <1>1, <1>2, <3>1, <3>2 DEF Range
    <3>3. CASE k = n + 1
      BY <1>1, <3>1, <3>3
    <3> QED BY <1>4, <3>2, <3>3
  <2>2. ASSUME NEW x \in Range(c)
        PROVE  x \in Range(t)
    <3>1. PICK k \in 1..n : x = c[k]
      BY <1>2 DEF Range
    <3>2. k \in DOMAIN t /\ x = t[k]
      BY <1>1, <1>3, <1>5, <3>1
    <3> QED BY <3>2 DEF Range
  <2>3. e \in Range(t)
    BY <1>1, <1>3, <1>5 DEF Range
  <2> QED BY <2>1, <2>2, <2>3
<1> QED BY <1>6

-----------------------------------------------------------------------------
\* The inductive invariant.  Three things the program does not keep tell how far
\* it is: the places of the units still to be constructed, in the order they
\* wait in, q; the places whose constructor was entered, done; and the place of
\* the constructor that runs or ran last, cur.
Loaded(p) == p[2] = "acpi" \/ p[1] \notin pending

\* A call has had its effect, or will not be made any more.
Performed(c) ==
  /\ c[1] = "listen" => c[2] \in receivers
  /\ c[1] = "drive" => c[2] \in driven
  /\ c[1] = "keep" => c[2] \in immutables
  /\ c[1] = "need" => c[2] \notin trouble.absent
  /\ c[1] = "request" => c[2] \in held \ trouble.busy
  /\ c[1] = "event" => handler

\* Some call of a kind is still to be made.
Has(ops) == \E c \in Range(calls) : c[1] \in ops

\* A file that was looked at is not malformed, and the stages come in turn.
FileInv ==
  /\ \A f \in Yaml \ pending : FileOK(contents[f])
  /\ found <=> Yaml \ pending # {}
  /\ Range(floats) = UNION {Range(Nodes(contents[f], "floating_signals")) :
                               f \in Yaml \ pending}
  /\ stage > 0 => pending = {} /\ found
  /\ \A j \in 1..6 : j < stage => cfg[Sections[j]] = <<>>
  /\ stage \in {0, 7} => calls = <<>>

\* The node of every file that was read waits at its place exactly once, until
\* its constructor is entered.
WaitInv(q, done) ==
  /\ DOMAIN q = Section
  /\ \A s \in Section :
       /\ q[s] \in Seq(PlacesOf(s))
       /\ Len(q[s]) = Len(cfg[s])
       /\ \A k \in DOMAIN q[s] :
            q[s][k] \notin done /\ Loaded(q[s][k]) /\ cfg[s][k] = ItemAt(q[s][k])
       /\ IsInjective(q[s])
  /\ \A p \in AllPlaces : Loaded(p) => p \in done \/ p \in Range(q[p[2]])

\* The places entered are those of files that were read.
DoneInv(done) ==
  /\ done \subseteq AllPlaces
  /\ IsFiniteSet(done)
  /\ \A p \in done : Loaded(p)

\* The calls still to be made belong to the constructor that runs.
CallInv(done, cur) ==
  /\ calls # <<>> => cur \in done /\ Range(calls) \subseteq Range(CallsAt(cur))
  /\ Prepared(calls, Range(created))
  /\ Tidy(calls)

\* A call of a constructor that was entered is still to be made, or performed.
EffectInv(done, cur) ==
  \A p \in done : \A c \in Range(CallsAt(p)) :
    Performed(c) \/ (p = cur /\ c \in Range(calls))

\* Nothing but what the files name is created, received, driven or set.
BoundInv ==
  /\ Range(created) \subseteq Listened \cup Sourced
  /\ receivers \subseteq Listened
  /\ driven \cup immutables \subseteq Sourced
  /\ high \subseteq Given

\* One handler is posted for each unit of logic and each input line.
CountInv(done) ==
  result # "running" =>
    /\ \A k \in DOMAIN posted : posted[k][1] \in Posts
    /\ Len(posted) + (IF Has(Posts) THEN 1 ELSE 0) = Cardinality(done \cap Posting)

\* A line is held for one place only, and no two places entered want the same,
\* unless the second is about to be refused.
HeldInv(done, cur) ==
  /\ \A l \in held : \E p \in done \cap Lines :
       LineAt(p) = l /\ (Has({"request"}) => p # cur)
  /\ \A p, r \in done \cap Lines :
       p # r /\ LineAt(p) = LineAt(r) => Has({"request"}) /\ cur \in {p, r}

\* An immutable signal has its level, unless it is contradicted, about to be
\* driven, or not set yet.
LevelAt(p, cur) ==
  \/ \E other \in Items("immutables") :
       /\ other["signal_name"] = NodeAt(p)["signal_name"]
       /\ other["value"] # NodeAt(p)["value"]
  \/ NodeAt(p)["signal_name"] \in driven
  \/ <<"drive", NodeAt(p)["signal_name"]>> \in Range(calls)
  \/ p = cur /\ Has({"high", "low"})
  \/ NodeAt(p)["signal_name"] \in high <=> NodeAt(p)["value"]

LevelInv(done, cur) ==
  \A p \in done \cap Places("immutables") : LevelAt(p, cur)

\* What holds of the auxiliary q, done and cur.
Placed(q, done, cur) ==
  /\ WaitInv(q, done)
  /\ DoneInv(done)
  /\ CallInv(done, cur)
  /\ EffectInv(done, cur)
  /\ CountInv(done)
  /\ HeldInv(done, cur)
  /\ LevelInv(done, cur)

\* What holds without them.
Kept ==
  /\ TypeOK
  /\ contents \in Trees
  /\ AllRecorded
  /\ FileInv
  /\ BoundInv

IInv ==
  /\ Kept
  /\ \E q, done, cur : Placed(q, done, cur)
  /\ VerdictMatches
  /\ StartsAsAssumed

-----------------------------------------------------------------------------
\* All that is said of the files stays as long as they do.
LEMMA SameFiles ==
  ASSUME contents' = contents
  PROVE  /\ Yaml' = Yaml
         /\ \A s : Items(s)' = Items(s) /\ Buildable(s)' = Buildable(s)
         /\ \A s : Places(s)' = Places(s) /\ PlacesOf(s)' = PlacesOf(s)
         /\ AllPlaces' = AllPlaces
         /\ \A p : NodeAt(p)' = NodeAt(p) /\ LineAt(p)' = LineAt(p)
         /\ \A p : ItemAt(p)' = ItemAt(p) /\ CallsAt(p)' = CallsAt(p)
         /\ Lines' = Lines /\ Posting' = Posting
         /\ Listened' = Listened /\ Sourced' = Sourced /\ Given' = Given
         /\ Needed' = Needed
         /\ WellFormed' = WellFormed /\ Connected' = Connected
<1>1. /\ Yaml' = Yaml
      /\ \A s : Items(s)' = Items(s) /\ Buildable(s)' = Buildable(s)
  BY DEF Yaml, Items, Buildable
<1>2. \A s : Places(s)' = Places(s) /\ PlacesOf(s)' = PlacesOf(s)
  BY <1>1 DEF Places, PlacesOf
<1>3. AllPlaces' = AllPlaces
  BY <1>2 DEF AllPlaces
<1>4. \A p : NodeAt(p)' = NodeAt(p) /\ LineAt(p)' = LineAt(p)
  BY DEF NodeAt, LineAt
<1>5. \A p : ItemAt(p)' = ItemAt(p) /\ CallsAt(p)' = CallsAt(p)
  BY <1>4 DEF ItemAt, CallsAt
<1>6. Lines' = Lines
  BY <1>2, <1>4 DEF Lines
<1>7. Posting' = Posting
  BY <1>2, <1>6 DEF Posting
<1>8. Units' = Units /\ Rails' = Rails
  BY <1>1 DEF Units, Rails
<1>9. Listened' = Listened
  BY <1>1, <1>8 DEF Listened
<1>10. Given' = Given
  BY <1>1, <1>8 DEF Given
<1>11. Sourced' = Sourced
  BY <1>1, <1>8, <1>10 DEF Sourced
<1>12. Needed' = Needed
  BY <1>1, <1>4, <1>6 DEF Needed
<1>13. WellFormed' = WellFormed
  BY <1>1 DEF WellFormed
<1>14. Connected' = Connected
  BY <1>1, <1>9, <1>11 DEF Connected
<1> QED BY <1>1, <1>2, <1>3, <1>4, <1>5, <1>6, <1>7, <1>9, <1>10, <1>11,
           <1>12, <1>13, <1>14

-----------------------------------------------------------------------------
\* What is known of the call that is made next.
LEMMA HeadFacts ==
  ASSUME NEW done, NEW cur, TypeOK, contents \in Trees, AllRecorded,
         DoneInv(done), CallInv(done, cur), calls # <<>>,
         NEW h, h = Head(calls), NEW t, t = Tail(calls)
  PROVE  /\ h \in Call /\ h[1] \in Op /\ h[2] \in Name
         /\ t \in Seq(Call)
         /\ cur \in done /\ cur \in AllPlaces
         /\ h \in Range(CallsAt(cur)) /\ Meant(cur, h)
         /\ Range(calls) = {h} \cup Range(t)
         /\ h[1] \in Sets => h[2] \in Range(created) /\ h[2] \in Range(recorded)
         /\ Tidy(t)
         /\ h[1] = "sense" => <<"drive", h[2]>> \in Range(t)
         /\ h[1] \in Posts => \A x \in Range(t) : x[1] \notin Posts
         /\ h[1] = "request" => \A x \in Range(t) : x[1] # "request"
<1>1. calls \in Seq(Call)
  BY DEF TypeOK
<1>2. /\ t \in Seq(Call) /\ h = calls[1] /\ h \in Call
      /\ Range(calls) = {h} \cup Range(t)
  <2>1. t \in Seq(Call) /\ Head(calls) = calls[1] /\ calls[1] \in Call
    BY <1>1, TailShape
  <2>2. Range(calls) = {calls[1]} \cup Range(t)
    BY <1>1, TailRange
  <2> QED BY <2>1, <2>2
<1>3. h[1] \in Op /\ h[2] \in Name
  BY <1>2 DEF Call
<1>4. cur \in done /\ h \in Range(CallsAt(cur))
  BY <1>2 DEF CallInv
<1>5. cur \in AllPlaces
  BY <1>4 DEF DoneInv
<1>6. Meant(cur, h)
  BY <1>4, <1>5, CallMeaning
<1>7. Tidy(calls) /\ Prepared(calls, Range(created))
  BY DEF CallInv
<1>8. h[1] \in Sets => h[2] \in Range(created)
  <2>1. Prepared(calls, Range(created))
        /\ Range(created) \subseteq Range(created) \cup {h[2]}
    BY <1>7
  <2> QED BY <1>1, <1>2, <2>1, TailPrepared
<1>9. recorded = created
  BY DEF AllRecorded
<1>10. /\ Tidy(t)
       /\ h[1] = "sense" => <<"drive", h[2]>> \in Range(t)
       /\ h[1] \in Posts => \A x \in Range(t) : x[1] \notin Posts
       /\ h[1] = "request" => \A x \in Range(t) : x[1] # "request"
  BY <1>1, <1>2, <1>7, TailTidy
<1> QED BY <1>2, <1>3, <1>4, <1>5, <1>6, <1>8, <1>9, <1>10

\* What a call leaves of the invariant, whatever the call.
LEMMA CallStep ==
  ASSUME NEW q, NEW done, NEW cur, TypeOK, contents \in Trees, AllRecorded,
         FileInv, WaitInv(q, done), DoneInv(done), CallInv(done, cur),
         EffectInv(done, cur), calls # <<>>, Return,
         NEW h, h = Head(calls), Performed(h)',
         h[1] \in Creates => h[2] \in Range(created)',
         Range(created) \subseteq Range(created)',
         receivers \subseteq receivers', driven \subseteq driven',
         immutables \subseteq immutables', held \subseteq held',
         handler => handler'
  PROVE  /\ FileInv'
         /\ WaitInv(q, done)'
         /\ DoneInv(done)'
         /\ CallInv(done, cur)'
         /\ EffectInv(done, cur)'
<1> DEFINE t == calls'
<1>1. /\ calls' = Tail(calls) /\ contents' = contents /\ trouble' = trouble
      /\ pending' = pending /\ found' = found /\ cfg' = cfg
      /\ floats' = floats /\ stage' = stage
  BY DEF Return, loadVars
<1>2. /\ h \in Call /\ t \in Seq(Call)
      /\ cur \in done /\ Range(calls) = {h} \cup Range(t)
      /\ Tidy(t)
  BY <1>1, HeadFacts
<1>3. Yaml' = Yaml
  BY <1>1, SameFiles
<1>4. FileInv'
  <2>1. calls = <<>> => calls' = <<>>
    OBVIOUS
  <2>2. stage' \notin {0, 7}
    BY <1>1 DEF FileInv
  <2> QED BY <1>1, <1>3, <2>2 DEF FileInv
<1>5. WaitInv(q, done)'
  <2>1. \A s \in Section : PlacesOf(s)' = PlacesOf(s)
    BY <1>1, SameFiles
  <2>2. \A p : ItemAt(p)' = ItemAt(p)
    BY <1>1, SameFiles
  <2>3. \A p : Loaded(p)' = Loaded(p)
    BY <1>1 DEF Loaded
  <2>4. AllPlaces' = AllPlaces
    BY <1>1, SameFiles
  <2> QED BY <1>1, <2>1, <2>2, <2>3, <2>4 DEF WaitInv
<1>6. DoneInv(done)'
  <2>1. \A p : Loaded(p)' = Loaded(p)
    BY <1>1 DEF Loaded
  <2>2. AllPlaces' = AllPlaces
    BY <1>1, SameFiles
  <2> QED BY <2>1, <2>2 DEF DoneInv
<1>7. CallsAt(cur)' = CallsAt(cur) /\ \A p \in done : CallsAt(p)' = CallsAt(p)
  BY <1>1, SameFiles
<1>8. CallInv(done, cur)'
  <2>1. Range(calls)' \subseteq Range(CallsAt(cur))'
    BY <1>2, <1>7 DEF CallInv
  <2>2. Prepared(t, Range(created)')
    <3>1. calls \in Seq(Call) /\ Prepared(calls, Range(created))
      BY DEF TypeOK, CallInv
    <3>2. h = calls[1]
      BY <3>1, TailShape
    <3> QED BY <1>1, <3>1, <3>2, TailPrepared
  <2> QED BY <1>2, <2>1, <2>2 DEF CallInv
<1>9. EffectInv(done, cur)'
  <2> SUFFICES ASSUME NEW p \in done, NEW c \in Range(CallsAt(p))
               PROVE  Performed(c)' \/ (p = cur /\ c \in Range(t))
    BY <1>7 DEF EffectInv
  <2>1. CASE Performed(c)
    BY <1>1, <2>1 DEF Performed
  <2>2. CASE p = cur /\ c \in Range(calls)
    BY <1>2, <2>2
  <2> QED BY <2>1, <2>2 DEF EffectInv
<1> QED BY <1>4, <1>5, <1>6, <1>8, <1>9

\* A call posts a handler, or leaves the number to be posted.
LEMMA CountStep ==
  ASSUME NEW done, NEW cur, TypeOK, contents \in Trees, AllRecorded,
         DoneInv(done), CallInv(done, cur), CountInv(done), calls # <<>>,
         Return, result # "running", NEW h, h = Head(calls),
         posted' = IF h[1] \in Posts THEN Append(posted, h) ELSE posted
  PROVE  CountInv(done)'
<1> DEFINE t == calls'
<1>1. calls' = Tail(calls) /\ contents' = contents /\ result' = result
  BY DEF Return
<1>2. /\ h \in Call /\ t \in Seq(Call)
      /\ Range(calls) = {h} \cup Range(t)
      /\ h[1] \in Posts => \A x \in Range(t) : x[1] \notin Posts
  BY <1>1, HeadFacts
<1>3. Posting' = Posting
  BY <1>1, SameFiles
<1> DEFINE S == ({"evaluate"} \cup Op) \X Name
           n == Cardinality(done \cap Posting)
<1>4. posted \in Seq(S) /\ h \in S
  BY <1>2 DEF TypeOK, Call
<1>5. /\ \A k \in DOMAIN posted : posted[k][1] \in Posts
      /\ Len(posted) + (IF Has(Posts) THEN 1 ELSE 0) = n
  BY DEF CountInv
<1>6. Len(posted) \in Nat
  BY <1>4, LenProperties
<1> HIDE DEF S, n
<1>7. CASE h[1] \in Posts
  <2>1. posted' = Append(posted, h)
    BY <1>7
  <2>2. /\ DOMAIN posted = 1..Len(posted)
        /\ DOMAIN posted' = 1..(Len(posted) + 1)
        /\ Len(posted') = Len(posted) + 1
        /\ \A k \in 1..Len(posted) : posted'[k] = posted[k]
        /\ posted'[Len(posted) + 1] = h
    BY <1>4, <2>1, AppendShape
  <2>3. Has(Posts) /\ ~Has(Posts)'
    BY <1>2, <1>7 DEF Has
  <2>4. \A k \in 1..(Len(posted) + 1) : k \in 1..Len(posted) \/ k = Len(posted) + 1
    BY <1>6
  <2>5. \A k \in DOMAIN posted' : posted'[k][1] \in Posts
    BY <1>5, <1>7, <2>2, <2>4
  <2>6. Len(posted') = n
    BY <1>5, <1>6, <2>2, <2>3
  <2>7. Len(posted') + (IF Has(Posts)' THEN 1 ELSE 0) = n
    BY <1>6, <2>2, <2>3, <2>6
  <2>8. Cardinality(done \cap Posting') = n
    BY <1>3 DEF n
  <2> QED BY <2>5, <2>7, <2>8 DEF CountInv
<1>8. CASE h[1] \notin Posts
  <2>1. posted' = posted
    BY <1>8
  <2>2. Has(Posts)' <=> Has(Posts)
    BY <1>2, <1>8 DEF Has
  <2>3. Cardinality(done \cap Posting') = n
    BY <1>3 DEF n
  <2> QED BY <1>5, <2>1, <2>2, <2>3 DEF CountInv
<1> QED BY <1>7, <1>8

\* A call is granted a line nobody holds, or leaves the lines.
LEMMA HeldStep ==
  ASSUME NEW done, NEW cur, TypeOK, contents \in Trees, AllRecorded,
         DoneInv(done), CallInv(done, cur), EffectInv(done, cur),
         HeldInv(done, cur), calls # <<>>, Return,
         NEW h, h = Head(calls),
         h[1] = "request" => h[2] \notin held,
         held' = IF h[1] = "request" THEN held \cup {h[2]} ELSE held
  PROVE  HeldInv(done, cur)'
<1> DEFINE t == calls'
           ops == {"request"}
<1>1. calls' = Tail(calls) /\ contents' = contents
  BY DEF Return
<1>2. /\ cur \in done /\ Range(calls) = {h} \cup Range(t)
      /\ h[1] = "request" => \A x \in Range(t) : x[1] # "request"
      /\ Meant(cur, h)
  BY <1>1, HeadFacts
<1>3. Lines' = Lines /\ \A p : LineAt(p)' = LineAt(p)
  BY <1>1, SameFiles
<1>4. CASE h[1] # "request"
  <2>1. Has(ops)' <=> Has(ops)
    BY <1>2, <1>4 DEF Has
  <2>2. held' = held
    BY <1>4
  <2> QED BY <1>3, <2>1, <2>2 DEF HeldInv
<1>5. CASE h[1] = "request"
  <2>1. Has(ops) /\ ~Has(ops)'
    BY <1>2, <1>5 DEF Has
  <2>2. cur \in done \cap Lines /\ LineAt(cur) = h[2]
    BY <1>2, <1>5 DEF Meant
  <2>3. held' = held \cup {h[2]}
    BY <1>5
  <2>4. ASSUME NEW l \in held'
        PROVE  \E p \in done \cap Lines : LineAt(p) = l
    <3>1. CASE l \in held
      BY <3>1 DEF HeldInv
    <3>2. CASE l = h[2]
      BY <2>2, <3>2
    <3> QED BY <2>3, <3>1, <3>2
  <2>5. ASSUME NEW p \in done \cap Lines, p # cur
        PROVE  LineAt(p) # LineAt(cur)
    <3>1. PICK l : l = LineAt(p)
      OBVIOUS
    <3>2. <<"request", l>> \in Range(CallsAt(p))
      BY <3>1, LineAsked
    <3>3. PICK c \in Range(CallsAt(p)) : c = <<"request", l>>
      BY <3>2
    <3>4. Performed(c)
      BY <2>5, <3>3 DEF EffectInv
    <3>5. l \in held
      BY <3>3, <3>4 DEF Performed
    <3> QED BY <1>5, <2>2, <3>1, <3>5
  <2>6. ASSUME NEW p \in done \cap Lines, NEW r \in done \cap Lines,
               p # r, LineAt(p) = LineAt(r)
        PROVE  FALSE
    <3>1. cur \in {p, r}
      BY <2>6 DEF HeldInv
    <3> QED BY <2>5, <2>6, <3>1
  <2> QED BY <1>3, <2>1, <2>4, <2>6 DEF HeldInv
<1> QED BY <1>4, <1>5

\* The level of an immutable signal in a file that was read is a level.
LEMMA ImmutableValue ==
  ASSUME contents \in Trees, FileInv, NEW done, DoneInv(done),
         NEW p \in done \cap Places("immutables")
  PROVE  NodeAt(p) \in Items("immutables") /\ NodeAt(p)["value"] \in BOOLEAN
<1>1. "immutables" \in Decoded
  BY SectionFacts
<1>2. PICK f : f = p[1]
  OBVIOUS
<1>3. PICK k : k = p[3]
  OBVIOUS
<1>4. /\ f \in Yaml /\ p[2] = "immutables"
      /\ k \in DOMAIN Nodes(contents[f], "immutables")
      /\ NodeAt(p) = Nodes(contents[f], "immutables")[k]
      /\ NodeAt(p) \in Items("immutables")
  BY <1>1, <1>2, <1>3, PlaceNode
<1>5. f \notin pending
  BY <1>2, <1>4 DEF DoneInv, Loaded
<1>6. NodeOK("immutables", NodeAt(p))
  BY <1>1, <1>4, <1>5 DEF FileInv, FileOK
<1>7. ImmutableOK(NodeAt(p))
  BY <1>6 DEF NodeOK
<1>8. f \in File /\ NodeAt(p) \in Range(Nodes(contents[f], "immutables"))
  BY <1>4 DEF Yaml, Range
<1> QED BY <1>4, <1>7, <1>8, TreesAssumption

\* A call that sets a level sets that of its node, or that of hardware which a
\* driver will answer for.
LEMMA LevelStep ==
  ASSUME NEW done, NEW cur, TypeOK, contents \in Trees, AllRecorded, FileInv,
         DoneInv(done), CallInv(done, cur), LevelInv(done, cur),
         calls # <<>>, Return, NEW h, h = Head(calls),
         driven' = IF h[1] = "drive" THEN driven \cup {h[2]} ELSE driven,
         NEW level \in BOOLEAN,
         h[1] = "high" => level, h[1] = "low" => ~level,
         high' = IF h[1] \notin {"high", "low", "sense"} THEN high
                 ELSE IF level THEN high \cup {h[2]} ELSE high \ {h[2]}
  PROVE  LevelInv(done, cur)'
<1> DEFINE t == calls'
<1>1. calls' = Tail(calls) /\ contents' = contents
  BY DEF Return
<1>2. /\ cur \in done /\ Range(calls) = {h} \cup Range(t)
      /\ h[1] = "sense" => <<"drive", h[2]>> \in Range(t)
      /\ Meant(cur, h)
  BY <1>1, HeadFacts
<1>3. /\ Places("immutables")' = Places("immutables")
      /\ Items("immutables")' = Items("immutables")
      /\ \A p : NodeAt(p)' = NodeAt(p)
  BY <1>1, SameFiles
<1> SUFFICES ASSUME NEW p \in done \cap Places("immutables")
             PROVE  LevelAt(p, cur)'
  BY <1>3 DEF LevelInv
<1> SUFFICES ASSUME NEW s, s = NodeAt(p)["signal_name"],
                    NEW v, v = NodeAt(p)["value"],
                    ~\E other \in Items("immutables") :
                       other["signal_name"] = s /\ other["value"] # v,
                    s \notin driven', <<"drive", s>> \notin Range(t),
                    p = cur => ~Has({"high", "low"})'
             PROVE  s \in high' <=> v
  BY <1>3 DEF LevelAt
<1>4. v \in BOOLEAN
  BY ImmutableValue
<1>5. s \notin driven
  OBVIOUS
<1>6. <<"drive", s>> \notin Range(calls)
  <2>1. ASSUME h = <<"drive", s>>
        PROVE  FALSE
    <3>1. h[1] = "drive" /\ h[2] = s
      BY <2>1
    <3> QED BY <3>1
  <2> QED BY <1>2, <2>1
<1>7. \/ p = cur /\ Has({"high", "low"})
      \/ s \in high <=> v
  BY <1>5, <1>6 DEF LevelInv, LevelAt
<1>8. CASE h[1] \in {"high", "low"}
  <2>1. /\ cur \in done \cap Places("immutables")
        /\ h[2] = NodeAt(cur)["signal_name"]
        /\ h[1] = IF NodeAt(cur)["value"] THEN "high" ELSE "low"
    BY <1>2, <1>8 DEF Meant
  <2>2. NodeAt(cur)["value"] \in BOOLEAN /\ NodeAt(cur) \in Items("immutables")
    BY <2>1, ImmutableValue
  <2>3. level <=> NodeAt(cur)["value"]
    BY <1>8, <2>1, <2>2
  <2>4. CASE h[2] = s
    <3>1. NodeAt(cur)["value"] = v
      BY <2>1, <2>2, <2>4
    <3>2. high' = IF level THEN high \cup {s} ELSE high \ {s}
      BY <1>8, <2>4
    <3> QED BY <1>4, <2>2, <2>3, <3>1, <3>2
  <2>5. CASE h[2] # s
    <3>1. p # cur
      BY <2>1, <2>5
    <3>2. s \in high <=> v
      BY <1>7, <3>1
    <3>3. s \in high' <=> s \in high
      BY <1>8, <2>5
    <3> QED BY <3>2, <3>3
  <2> QED BY <2>4, <2>5
<1>9. CASE h[1] \notin {"high", "low"}
  <2>1. Has({"high", "low"})' <=> Has({"high", "low"})
    BY <1>2, <1>9 DEF Has
  <2>2. s \in high <=> v
    BY <1>7, <2>1
  <2>3. s \in high' <=> s \in high
    <3>1. CASE h[1] = "sense"
      <4>1. h[2] # s
        BY <1>2, <3>1
      <4> QED BY <3>1, <4>1
    <3>2. CASE h[1] # "sense"
      BY <1>9, <3>2
    <3> QED BY <3>1, <3>2
  <2> QED BY <2>2, <2>3
<1> QED BY <1>8, <1>9

\* A call that returns, with the effect that its operation has, keeps the
\* invariant.
LEMMA Returned ==
  ASSUME IInv, result = "none", calls # <<>>, Return,
         NEW h, h = Head(calls), NEW level \in BOOLEAN,
         NEW new \in BOOLEAN, new <=> h[1] \in Creates /\ h[2] \notin Range(created),
         h[1] = "high" => level, h[1] = "low" => ~level,
         h[1] = "need" => h[2] \notin trouble.absent,
         h[1] = "request" => h[2] \notin trouble.busy \cup held,
         created' = IF new THEN Append(created, h[2]) ELSE created,
         recorded' = IF new THEN Append(recorded, h[2]) ELSE recorded,
         receivers' = IF h[1] = "listen" THEN receivers \cup {h[2]}
                                         ELSE receivers,
         driven' = IF h[1] = "drive" THEN driven \cup {h[2]} ELSE driven,
         immutables' = IF h[1] = "keep" THEN immutables \cup {h[2]}
                                        ELSE immutables,
         held' = IF h[1] = "request" THEN held \cup {h[2]} ELSE held,
         handler' = IF h[1] = "event" THEN TRUE ELSE handler,
         high' = IF h[1] \notin {"high", "low", "sense"} THEN high
                 ELSE IF level THEN high \cup {h[2]} ELSE high \ {h[2]},
         posted' = IF h[1] \in Posts THEN Append(posted, h) ELSE posted
  PROVE  IInv'
<1>1. PICK q, done, cur : Placed(q, done, cur)
  BY DEF IInv
<1>2. /\ TypeOK /\ contents \in Trees /\ AllRecorded /\ FileInv /\ BoundInv
      /\ WaitInv(q, done) /\ DoneInv(done) /\ CallInv(done, cur)
      /\ EffectInv(done, cur) /\ CountInv(done) /\ HeldInv(done, cur)
      /\ LevelInv(done, cur)
  BY <1>1 DEF IInv, Kept, Placed
<1>3. /\ calls' = Tail(calls) /\ contents' = contents /\ trouble' = trouble
      /\ pending' = pending /\ found' = found /\ cfg' = cfg
      /\ floats' = floats /\ stage' = stage /\ result' = result
  BY DEF Return, loadVars
<1>4. /\ h \in Call /\ h[1] \in Op /\ h[2] \in Name
      /\ calls' \in Seq(Call)
      /\ Meant(cur, h)
      /\ h[1] \in Sets => h[2] \in Range(created)
  BY <1>2, <1>3, HeadFacts
<1>5. created \in Seq(Name) /\ recorded = created /\ IsInjective(created)
  BY <1>2 DEF TypeOK, AllRecorded
<1>6. /\ created' \in Seq(Name) /\ recorded' = created'
      /\ IsInjective(created')
      /\ \A x : x \in Range(created') <=> x \in Range(created) \/ (new /\ x = h[2])
  <2>1. CASE new
    <3>1. created' = Append(created, h[2]) /\ h[2] \notin Range(created)
          /\ recorded' = Append(recorded, h[2])
      BY <2>1
    <3>2. created' \in Seq(Name)
      <4>1. Append(created, h[2]) \in Seq(Name)
        BY <1>4, <1>5, AppendProperties
      <4> QED BY <3>1, <4>1
    <3>3. \A x : x \in Range(created') <=> x \in Range(created) \/ x = h[2]
      BY <1>4, <1>5, <3>1, AppendRange
    <3>4. IsInjective(created')
      BY <1>4, <1>5, <3>1, AppendOnce
    <3> QED BY <1>5, <2>1, <3>1, <3>2, <3>3, <3>4
  <2>2. CASE ~new
    BY <1>5, <2>2
  <2> QED BY <2>1, <2>2
<1>7. /\ h[1] \in Creates => h[2] \in Range(created')
      /\ Range(created) \subseteq Range(created')
      /\ \A x \in Range(created') :
            x \in Range(created) \/ (h[1] \in Creates /\ x = h[2])
  BY <1>6
<1>8. /\ receivers \subseteq receivers' /\ driven \subseteq driven'
      /\ immutables \subseteq immutables' /\ held \subseteq held'
      /\ handler => handler'
  OBVIOUS
<1>9. Performed(h)'
  BY <1>3 DEF Performed
<1>10. /\ FileInv' /\ WaitInv(q, done)' /\ DoneInv(done)'
       /\ CallInv(done, cur)' /\ EffectInv(done, cur)'
  BY <1>2, <1>7, <1>8, <1>9, CallStep
<1>11. CountInv(done)'
  BY <1>2, CountStep
<1>12. HeldInv(done, cur)'
  BY <1>2, HeldStep
<1>13. LevelInv(done, cur)'
  BY <1>2, LevelStep
<1>14. Placed(q, done, cur)'
  BY <1>10, <1>11, <1>12, <1>13 DEF Placed
<1>15. TypeOK'
  <2>1. \A s : Buildable(s)' = Buildable(s)
    BY <1>3, SameFiles
  <2>2. (high \cup receivers \cup driven \cup immutables \subseteq Range(created))'
    <3>1. receivers' \subseteq Range(created')
      BY <1>2, <1>7 DEF TypeOK, Creates
    <3>2. driven' \subseteq Range(created')
      BY <1>2, <1>4, <1>7 DEF TypeOK, Sets
    <3>3. immutables' \subseteq Range(created')
      BY <1>2, <1>4, <1>7 DEF TypeOK, Sets
    <3>4. high' \subseteq Range(created')
      BY <1>2, <1>4, <1>7 DEF TypeOK, Sets
    <3> QED BY <3>1, <3>2, <3>3, <3>4
  <2>3. held' \subseteq Name /\ handler' \in BOOLEAN
    BY <1>2, <1>4 DEF TypeOK
  <2>4. posted' \in Seq(({"evaluate"} \cup Op) \X Name)
    <3> DEFINE S == ({"evaluate"} \cup Op) \X Name
    <3>1. posted \in Seq(S)
      BY <1>2 DEF TypeOK
    <3>2. h \in S
      BY <1>4 DEF Call
    <3> HIDE DEF S
    <3>3. Append(posted, h) \in Seq(S)
      BY <3>1, <3>2, AppendProperties
    <3>4. posted' \in Seq(S)
      BY <3>1, <3>3
    <3> QED BY <3>4 DEF S
  <2>5. /\ DOMAIN contents' = File /\ pending' \subseteq File
        /\ found' \in BOOLEAN /\ DOMAIN cfg' = Section
        /\ \A s \in Section : cfg'[s] \in Seq(Buildable(s)')
        /\ floats' \in Seq(Name)
        /\ stage' \in 0..Len(Sections) + 1
        /\ result' \in {"none", "running", "exit", "abort"}
    BY <1>2, <1>3, <2>1 DEF TypeOK
  <2> QED BY <1>4, <1>6, <2>2, <2>3, <2>4, <2>5 DEF TypeOK
<1>16. BoundInv'
  <2>1. /\ Listened' = Listened /\ Sourced' = Sourced /\ Given' = Given
    BY <1>3, SameFiles
  <2>2. Range(created') \subseteq Listened \cup Sourced
    BY <1>2, <1>4, <1>7 DEF BoundInv, Meant, Creates
  <2>3. receivers' \subseteq Listened
    BY <1>2, <1>4 DEF BoundInv, Meant
  <2>4. driven' \cup immutables' \subseteq Sourced
    BY <1>2, <1>4 DEF BoundInv, Meant
  <2>5. high' \subseteq Given
    BY <1>2, <1>4 DEF BoundInv, Meant
  <2> QED BY <2>1, <2>2, <2>3, <2>4, <2>5 DEF BoundInv
<1>17. AllRecorded'
  BY <1>6 DEF AllRecorded
<1>18. Kept'
  BY <1>3, <1>10, <1>2, <1>15, <1>16, <1>17 DEF Kept
<1>19. VerdictMatches' /\ StartsAsAssumed'
  BY <1>3 DEF VerdictMatches, StartsAsAssumed
<1> QED BY <1>14, <1>18, <1>19 DEF IInv

\* The calls of the constructors, one by one, keep the invariant.
LEMMA CallActions ==
  ASSUME IInv,
         \/ Find \/ Listen \/ Drive \/ SetLevel \/ KeepImmutable
         \/ SetDirtyBitEvent \/ HardwareFound \/ LineGranted \/ Post
  PROVE  IInv'
<1>1. result = "none" /\ calls # <<>>
  BY DEF Calling, Find, Listen, Drive, SetLevel, KeepImmutable,
         SetDirtyBitEvent, HardwareFound, LineGranted, Post
<1>2. PICK h : h = Head(calls)
  OBVIOUS
<1>3. PICK new \in BOOLEAN :
        new <=> h[1] \in Creates /\ h[2] \notin Range(created)
  OBVIOUS
<1>4. PICK q, done, cur : Placed(q, done, cur)
  BY DEF IInv
<1>5. h[1] \in Sets => h[2] \in Range(recorded)
  BY <1>1, <1>2, <1>4, HeadFacts DEF IInv, Kept, Placed
<1>6. CASE Find
  <2>1. h[1] = "find" /\ h[1] \in Creates /\ h[1] \notin Posts
    BY <1>2, <1>6 DEF Find, Calling, Creates, Posts
  <2>2. /\ Return /\ high' = high /\ receivers' = receivers
        /\ driven' = driven /\ immutables' = immutables /\ held' = held
        /\ handler' = handler
    BY <1>6 DEF Find
  <2>3. /\ created' = IF new THEN Append(created, h[2]) ELSE created
        /\ recorded' = IF new THEN Append(recorded, h[2]) ELSE recorded
        /\ posted' = posted
    BY <1>2, <1>3, <1>6, <2>1 DEF Find, FindOrAdd, Operand
  <2> QED BY <1>1, <1>2, <1>3, <2>1, <2>2, <2>3, Returned
<1>7. CASE Listen
  <2>1. h[1] = "listen" /\ h[1] \in Creates /\ h[1] \notin Posts
    BY <1>2, <1>7 DEF Listen, Calling, Creates, Posts
  <2>2. /\ Return /\ high' = high /\ receivers' = receivers \cup {h[2]}
        /\ driven' = driven /\ immutables' = immutables /\ held' = held
        /\ handler' = handler
    BY <1>2, <1>7 DEF Listen, Operand
  <2>3. /\ created' = IF new THEN Append(created, h[2]) ELSE created
        /\ recorded' = IF new THEN Append(recorded, h[2]) ELSE recorded
        /\ posted' = posted
    BY <1>2, <1>3, <1>7, <2>1 DEF Listen, FindOrAdd, Operand
  <2> QED BY <1>1, <1>2, <1>3, <2>1, <2>2, <2>3, Returned
<1>8. CASE Drive
  <2>1. h[1] = "drive" /\ h[1] \notin Creates /\ h[1] \notin Posts
    BY <1>2, <1>8 DEF Drive, Calling, Creates, Posts
  <2>2. /\ Return /\ high' = high /\ receivers' = receivers
        /\ driven' = driven \cup {h[2]} /\ immutables' = immutables
        /\ held' = held /\ handler' = handler /\ created' = created
        /\ recorded' = recorded /\ posted' = posted
    BY <1>2, <1>8 DEF Drive, Operand
  <2> QED BY <1>1, <1>2, <1>3, <2>1, <2>2, Returned
<1>9. CASE SetLevel
  <2>1. /\ h[1] \in {"high", "low", "sense"} /\ h[1] \notin Creates
        /\ h[1] \notin Posts /\ h[1] \in Sets
    BY <1>2, <1>9 DEF SetLevel, Calling, Creates, Posts, Sets
  <2>2. PICK level \in CASE h[1] = "high" -> {TRUE}
                         [] h[1] = "low" -> {FALSE}
                         [] OTHER -> BOOLEAN :
          LET raises == level # (h[2] \in high) /\ h[2] \notin Range(recorded)
          IN IF raises /\ ~handler
             THEN Fail("exit")
             ELSE /\ high' = IF level THEN high \cup {h[2]} ELSE high \ {h[2]}
                  /\ recorded' = IF raises THEN Append(recorded, h[2])
                                           ELSE recorded
                  /\ posted' = IF raises THEN Append(posted, <<"evaluate", "dirty">>)
                                         ELSE posted
                  /\ Return
                  /\ UNCHANGED <<created, receivers, driven, immutables, held,
                                 handler>>
    BY <1>2, <1>9 DEF SetLevel, Operand
  <2>3. level \in BOOLEAN /\ (h[1] = "high" => level) /\ (h[1] = "low" => ~level)
    BY <2>1
  <2>4. h[2] \in Range(recorded)
    BY <1>5, <2>1
  <2>5. /\ high' = IF level THEN high \cup {h[2]} ELSE high \ {h[2]}
        /\ recorded' = recorded /\ posted' = posted /\ Return
        /\ created' = created /\ receivers' = receivers /\ driven' = driven
        /\ immutables' = immutables /\ held' = held /\ handler' = handler
    BY <2>2, <2>4
  <2> QED BY <1>1, <1>2, <1>3, <2>1, <2>3, <2>5, Returned
<1>10. CASE KeepImmutable
  <2>1. h[1] = "keep" /\ h[1] \notin Creates /\ h[1] \notin Posts
    BY <1>2, <1>10 DEF KeepImmutable, Calling, Creates, Posts
  <2>2. /\ Return /\ high' = high /\ receivers' = receivers
        /\ driven' = driven /\ immutables' = immutables \cup {h[2]}
        /\ held' = held /\ handler' = handler /\ created' = created
        /\ recorded' = recorded /\ posted' = posted
    BY <1>2, <1>10 DEF KeepImmutable, Operand
  <2> QED BY <1>1, <1>2, <1>3, <2>1, <2>2, Returned
<1>11. CASE SetDirtyBitEvent
  <2>1. h[1] = "event" /\ h[1] \notin Creates /\ h[1] \notin Posts
    BY <1>2, <1>11 DEF SetDirtyBitEvent, Calling, Creates, Posts
  <2>2. /\ Return /\ high' = high /\ receivers' = receivers
        /\ driven' = driven /\ immutables' = immutables
        /\ held' = held /\ handler' = TRUE /\ created' = created
        /\ recorded' = recorded /\ posted' = posted
    BY <1>11 DEF SetDirtyBitEvent
  <2> QED BY <1>1, <1>2, <1>3, <2>1, <2>2, Returned
<1>12. CASE HardwareFound
  <2>1. /\ h[1] = "need" /\ h[1] \notin Creates /\ h[1] \notin Posts
        /\ h[2] \notin trouble.absent
    BY <1>2, <1>12 DEF HardwareFound, Calling, Operand, Creates, Posts
  <2>2. /\ Return /\ high' = high /\ receivers' = receivers
        /\ driven' = driven /\ immutables' = immutables
        /\ held' = held /\ handler' = handler /\ created' = created
        /\ recorded' = recorded /\ posted' = posted
    BY <1>12 DEF HardwareFound, providerVars
  <2> QED BY <1>1, <1>2, <1>3, <2>1, <2>2, Returned
<1>13. CASE LineGranted
  <2>1. /\ h[1] = "request" /\ h[1] \notin Creates /\ h[1] \notin Posts
        /\ h[2] \notin trouble.busy \cup held
    BY <1>2, <1>13 DEF LineGranted, Calling, Operand, Creates, Posts
  <2>2. /\ Return /\ high' = high /\ receivers' = receivers
        /\ driven' = driven /\ immutables' = immutables
        /\ held' = held \cup {h[2]} /\ handler' = handler
        /\ created' = created /\ recorded' = recorded /\ posted' = posted
    BY <1>2, <1>13 DEF LineGranted, Operand, providerVars
  <2> QED BY <1>1, <1>2, <1>3, <2>1, <2>2, Returned
<1>14. CASE Post
  <2>1. /\ h[1] \in {"update", "read"} /\ h[1] \notin Creates
        /\ h[1] \in Posts
    BY <1>2, <1>14 DEF Post, Calling, Creates, Posts
  <2>2. /\ Return /\ high' = high /\ receivers' = receivers
        /\ driven' = driven /\ immutables' = immutables
        /\ held' = held /\ handler' = handler /\ created' = created
        /\ recorded' = recorded /\ posted' = Append(posted, h)
    BY <1>2, <1>14 DEF Post, providerVars
  <2> QED BY <1>1, <1>2, <1>3, <2>1, <2>2, Returned
<1> QED BY <1>6, <1>7, <1>8, <1>9, <1>10, <1>11, <1>12, <1>13, <1>14

-----------------------------------------------------------------------------
\* What a step keeps that calls nothing and constructs nothing.
LEMMA Standing ==
  ASSUME NEW done, NEW cur, contents' = contents, trouble' = trouble,
         calls' = calls, UNCHANGED providerVars, held' = held, posted' = posted,
         pending' \subseteq pending,
         result = "running" => result' = "running",
         DoneInv(done), CallInv(done, cur), EffectInv(done, cur),
         CountInv(done), HeldInv(done, cur), LevelInv(done, cur),
         AllRecorded, BoundInv
  PROVE  /\ DoneInv(done)' /\ CallInv(done, cur)' /\ EffectInv(done, cur)'
         /\ CountInv(done)' /\ HeldInv(done, cur)' /\ LevelInv(done, cur)'
         /\ AllRecorded' /\ BoundInv'
<1>0. /\ created' = created /\ recorded' = recorded /\ high' = high
      /\ receivers' = receivers /\ driven' = driven
      /\ immutables' = immutables /\ handler' = handler
  BY DEF providerVars
<1>1. /\ AllPlaces' = AllPlaces /\ Lines' = Lines /\ Posting' = Posting
      /\ Listened' = Listened /\ Sourced' = Sourced /\ Given' = Given
      /\ \A p : NodeAt(p)' = NodeAt(p) /\ LineAt(p)' = LineAt(p)
      /\ \A p : CallsAt(p)' = CallsAt(p)
      /\ Places("immutables")' = Places("immutables")
      /\ Items("immutables")' = Items("immutables")
  BY SameFiles
<1>2. DoneInv(done)'
  <2>1. \A p : Loaded(p) => Loaded(p)'
    BY DEF Loaded
  <2> QED BY <1>1, <2>1 DEF DoneInv
<1>3. CallInv(done, cur)'
  BY <1>0, <1>1 DEF CallInv
<1>4. EffectInv(done, cur)'
  <2>1. \A c : Performed(c)' <=> Performed(c)
    BY <1>0 DEF Performed
  <2> QED BY <1>0, <1>1, <2>1 DEF EffectInv
<1>5. \A ops : Has(ops)' <=> Has(ops)
  BY DEF Has
<1>6. CountInv(done)'
  BY <1>1, <1>5 DEF CountInv
<1>7. HeldInv(done, cur)'
  BY <1>1, <1>5 DEF HeldInv
<1>8. LevelInv(done, cur)'
  <2>1. \A p : LevelAt(p, cur)' <=> LevelAt(p, cur)
    BY <1>0, <1>1, <1>5 DEF LevelAt
  <2> QED BY <1>1, <2>1 DEF LevelInv
<1>9. AllRecorded' /\ BoundInv'
  BY <1>0, <1>1 DEF AllRecorded, BoundInv
<1> QED BY <1>2, <1>3, <1>4, <1>6, <1>7, <1>8, <1>9

\* A failure ends the program and keeps the invariant, if the verdict is right.
LEMMA FailStep ==
  ASSUME IInv, result # "running", NEW how \in {"exit", "abort"}, Fail(how),
         VerdictMatches'
  PROVE  IInv'
<1>1. PICK q, done, cur : Placed(q, done, cur)
  BY DEF IInv
<1>2. /\ contents' = contents /\ trouble' = trouble /\ pending' = pending
      /\ found' = found /\ cfg' = cfg /\ floats' = floats /\ stage' = stage
      /\ calls' = calls /\ UNCHANGED providerVars /\ held' = held
      /\ posted' = posted /\ result' = how
  BY DEF Fail, loadVars
<1>3. /\ DoneInv(done)' /\ CallInv(done, cur)' /\ EffectInv(done, cur)'
      /\ CountInv(done)' /\ HeldInv(done, cur)' /\ LevelInv(done, cur)'
      /\ AllRecorded' /\ BoundInv'
  BY <1>1, <1>2, Standing DEF IInv, Kept, Placed
<1>4. WaitInv(q, done)' /\ FileInv'
  <2>1. /\ AllPlaces' = AllPlaces /\ Yaml' = Yaml
        /\ \A p : ItemAt(p)' = ItemAt(p)
        /\ \A s : PlacesOf(s)' = PlacesOf(s)
    BY <1>2, SameFiles
  <2>2. \A p : Loaded(p)' = Loaded(p)
    BY <1>2 DEF Loaded
  <2>3. WaitInv(q, done) /\ FileInv
    BY <1>1 DEF IInv, Kept, Placed
  <2>4. WaitInv(q, done)'
    BY <1>2, <2>1, <2>2, <2>3 DEF WaitInv
  <2>5. FileInv'
    BY <1>2, <2>1, <2>3 DEF FileInv
  <2> QED BY <2>4, <2>5
<1>5. TypeOK'
  <2>1. \A s : Buildable(s)' = Buildable(s)
    BY <1>2, SameFiles
  <2>2. TypeOK
    BY DEF IInv, Kept
  <2> QED BY <1>2, <2>1, <2>2 DEF TypeOK, providerVars
<1>6. StartsAsAssumed'
  BY <1>2 DEF StartsAsAssumed
<1>7. Kept' /\ Placed(q, done, cur)'
  BY <1>2, <1>3, <1>4, <1>5 DEF IInv, Kept, Placed
<1> QED BY <1>6, <1>7 DEF IInv

\* The files are known to be in order once a unit is constructed.
LEMMA StageFacts ==
  ASSUME FileInv, stage > 0
  PROVE  /\ pending = {} /\ WellFormed
         /\ Range(floats) = Items("floating_signals")
<1>1. pending = {} /\ found /\ Yaml \ pending = Yaml
  BY DEF FileInv
<1>2. Yaml # {} /\ \A f \in Yaml : FileOK(contents[f])
  BY <1>1 DEF FileInv
<1> QED BY <1>1, <1>2 DEF FileInv, WellFormed, Items

\* Calls are made in one of the six sections.
LEMMA CallingFacts ==
  ASSUME TypeOK, FileInv, calls # <<>>
  PROVE  stage > 0 /\ stage \in 1..6
<1>1. stage \in 0..7 /\ stage \notin {0, 7}
  BY SectionFacts DEF TypeOK, FileInv
<1> QED BY <1>1

\* A file that is not well formed ends the program.
LEMMA RejectFileStep ==
  ASSUME IInv, NEW f \in File, RejectFile(f)
  PROVE  IInv'
<1>1. f \in Yaml /\ ~FileOK(contents[f]) /\ Fail("exit") /\ result = "none"
  BY DEF RejectFile, Loading, Yaml
<1>2. ~WellFormed
  BY <1>1 DEF WellFormed
<1>3. ~WellFormed' /\ result' = "exit"
  BY <1>1, <1>2, SameFiles DEF Fail
<1>4. VerdictMatches'
  BY <1>3 DEF VerdictMatches
<1> QED BY <1>1, <1>4, FailStep

\* So does a directory without a configuration.
LEMMA NothingFoundStep ==
  ASSUME IInv, NothingFound
  PROVE  IInv'
<1>1. pending = {} /\ ~found /\ Fail("exit") /\ result = "none" /\ FileInv
  BY DEF NothingFound, IInv, Kept
<1>2. ~WellFormed
  BY <1>1 DEF WellFormed, FileInv
<1>3. ~WellFormed' /\ result' = "exit"
  BY <1>1, <1>2, SameFiles DEF Fail
<1>4. VerdictMatches'
  BY <1>3 DEF VerdictMatches
<1> QED BY <1>1, <1>4, FailStep

\* So does hardware that is not found.
LEMMA HardwareMissingStep ==
  ASSUME IInv, HardwareMissing
  PROVE  IInv'
<1>1. /\ calls # <<>> /\ Head(calls)[1] = "need" /\ result = "none"
      /\ Head(calls)[2] \in trouble.absent /\ Fail("exit")
  BY DEF HardwareMissing, Calling, Operand
<1>2. PICK q, done, cur : Placed(q, done, cur)
  BY DEF IInv
<1>3. PICK h : h = Head(calls)
  OBVIOUS
<1>4. Meant(cur, h)
  BY <1>1, <1>2, <1>3, HeadFacts DEF IInv, Kept, Placed
<1>5. h[2] \in Needed \cap trouble.absent
  BY <1>1, <1>3, <1>4 DEF Meant
<1>6. Needed' = Needed /\ trouble' = trouble /\ result' = "exit"
  BY <1>1, SameFiles DEF Fail
<1>7. VerdictMatches'
  BY <1>5, <1>6 DEF VerdictMatches
<1> QED BY <1>1, <1>7, FailStep

\* A line that is taken aborts it: by another program, or by a constructor
\* before.
LEMMA LineRefusedStep ==
  ASSUME IInv, LineRefused
  PROVE  IInv'
<1>1. /\ calls # <<>> /\ Head(calls)[1] = "request" /\ result = "none"
      /\ Head(calls)[2] \in trouble.busy \cup held /\ Fail("abort")
  BY DEF LineRefused, Calling, Operand
<1>2. PICK q, done, cur : Placed(q, done, cur)
  BY DEF IInv
<1>3. PICK h : h = Head(calls)
  OBVIOUS
<1>4. Meant(cur, h) /\ Range(calls) = {h} \cup Range(Tail(calls))
  BY <1>1, <1>2, <1>3, HeadFacts DEF IInv, Kept, Placed
<1>5. cur \in Lines /\ LineAt(cur) = h[2]
  BY <1>1, <1>3, <1>4 DEF Meant
<1>6. Has({"request"})
  BY <1>1, <1>3, <1>4 DEF Has
<1>7. Clash
  <2>1. CASE h[2] \in trouble.busy
    BY <1>5, <2>1 DEF Clash
  <2>2. CASE h[2] \in held
    <3>1. PICK p \in done \cap Lines : LineAt(p) = h[2] /\ p # cur
      BY <1>2, <1>6, <2>2 DEF Placed, HeldInv
    <3> QED BY <1>5, <3>1 DEF Clash
  <2> QED BY <1>1, <1>3, <2>1, <2>2
<1>8. WellFormed
  BY <1>1, CallingFacts, StageFacts DEF IInv, Kept
<1>9. /\ Lines' = Lines /\ \A p : LineAt(p)' = LineAt(p)
      /\ trouble' = trouble /\ result' = "abort" /\ WellFormed' = WellFormed
  BY <1>1, SameFiles DEF Fail
<1>10. Clash'
  BY <1>7, <1>9 DEF Clash
<1>11. VerdictMatches'
  BY <1>8, <1>9, <1>10 DEF VerdictMatches
<1> QED BY <1>1, <1>11, FailStep

\* When every section is constructed, every call in the files was made.
LEMMA BuiltFacts ==
  ASSUME IInv, Built, NEW q, NEW done, NEW cur, Placed(q, done, cur)
  PROVE  /\ done = AllPlaces /\ calls = <<>>
         /\ \A p \in AllPlaces : \A c \in Range(CallsAt(p)) : Performed(c)
         /\ WellFormed
         /\ Listened \subseteq receivers
         /\ Sourced \subseteq driven \cup immutables
         /\ Needed \cap trouble.absent = {}
         /\ ~Clash
         /\ handler
<1>1. TypeOK /\ contents \in Trees /\ FileInv /\ stage = 7 /\ stage > 0
  BY SectionFacts DEF IInv, Kept, Built
<1>2. pending = {} /\ WellFormed
  BY <1>1, StageFacts
<1>3. calls = <<>> /\ Range(calls) = {}
  <2>1. calls = <<>>
    BY <1>1 DEF FileInv
  <2> QED BY <2>1 DEF Range
<1>4. \A s \in Section : cfg[s] = <<>>
  BY <1>1, SectionFacts DEF FileInv
<1>5. \A s \in Section : Range(q[s]) = {}
  <2> SUFFICES ASSUME NEW s \in Section
               PROVE  Range(q[s]) = {}
    OBVIOUS
  <2>1. q[s] \in Seq(PlacesOf(s)) /\ Len(q[s]) = Len(cfg[s])
    BY DEF Placed, WaitInv
  <2>2. Len(q[s]) = 0
    BY <1>4, <2>1
  <2>3. DOMAIN q[s] = 1..0
    BY <2>1, <2>2, LenProperties
  <2>4. 1..0 = {}
    OBVIOUS
  <2> QED BY <2>3, <2>4 DEF Range
<1>6. done = AllPlaces
  <2>1. \A p \in AllPlaces : p[2] \in Section
    BY PlaceCalls, SectionFacts
  <2>2. \A p \in AllPlaces : Loaded(p)
    BY <1>2 DEF Loaded
  <2>3. AllPlaces \subseteq done
    BY <1>5, <2>1, <2>2 DEF Placed, WaitInv
  <2> QED BY <2>3 DEF Placed, DoneInv
<1>7. \A p \in AllPlaces : \A c \in Range(CallsAt(p)) : Performed(c)
  BY <1>3, <1>6 DEF Placed, EffectInv
<1>8. ASSUME NEW s \in Listened
      PROVE  s \in receivers
  <2>1. PICK p \in AllPlaces : <<"listen", s>> \in Range(CallsAt(p))
    BY <1>1, ListenedAsked
  <2>2. PICK c \in Range(CallsAt(p)) : c = <<"listen", s>>
    BY <2>1
  <2>3. c[1] = "listen" /\ c[2] = s /\ Performed(c)
    BY <1>7, <2>2
  <2> QED BY <2>3 DEF Performed
<1>9. ASSUME NEW s \in Sourced
      PROVE  s \in driven \cup immutables
  <2>1. PICK p \in AllPlaces, op \in {"drive", "keep"} :
          <<op, s>> \in Range(CallsAt(p))
    BY <1>1, SourcedAsked
  <2>2. PICK c \in Range(CallsAt(p)) : c = <<op, s>>
    BY <2>1
  <2>3. c[1] = op /\ c[2] = s /\ Performed(c)
    BY <1>7, <2>2
  <2> QED BY <2>3 DEF Performed
<1>10. ASSUME NEW l \in Needed
       PROVE  l \notin trouble.absent
  <2>1. PICK p \in AllPlaces : <<"need", l>> \in Range(CallsAt(p))
    BY NeededAsked
  <2>2. PICK c \in Range(CallsAt(p)) : c = <<"need", l>>
    BY <2>1
  <2>3. c[1] = "need" /\ c[2] = l /\ Performed(c)
    BY <1>7, <2>2
  <2> QED BY <2>3 DEF Performed
<1>11. ~Clash
  <2>1. ASSUME NEW p \in Lines
        PROVE  LineAt(p) \notin trouble.busy /\ p \in AllPlaces
    <3>1. PICK l : l = LineAt(p)
      OBVIOUS
    <3>2. p \in AllPlaces /\ <<"request", l>> \in Range(CallsAt(p))
      BY <3>1, LineAsked
    <3>3. PICK c \in Range(CallsAt(p)) : c = <<"request", l>>
      BY <3>2
    <3>4. c[1] = "request" /\ c[2] = l /\ Performed(c)
      BY <1>7, <3>2, <3>3
    <3> QED BY <3>1, <3>2, <3>4 DEF Performed
  <2>2. ~Has({"request"})
    BY <1>3 DEF Has
  <2>3. \A p, r \in Lines : p # r => LineAt(p) # LineAt(r)
    BY <1>6, <2>1, <2>2 DEF Placed, HeldInv
  <2> QED BY <2>1, <2>3 DEF Clash
<1>12. handler
  <2>1. PICK c \in Range(ACPICalls) : c[1] = "event"
    BY ACPIRange
  <2>2. Performed(c)
    BY <1>7, <2>1, PlaceCalls
  <2> QED BY <2>1, <2>2 DEF Performed
<1> QED BY <1>2, <1>3, <1>6, <1>7, <1>8, <1>9, <1>10, <1>11, <1>12

\* A signal without a receiver or a driver ends it, unless it is floating.
LEMMA InvalidStep ==
  ASSUME IInv, Invalid
  PROVE  IInv'
<1>1. Built /\ ~Valid /\ Fail("exit") /\ result = "none"
  BY DEF Invalid, Built
<1>2. PICK q, done, cur : Placed(q, done, cur)
  BY DEF IInv
<1>3. /\ Listened \subseteq receivers
      /\ Sourced \subseteq driven \cup immutables
  BY <1>1, <1>2, BuiltFacts
<1>4. Range(floats) = Items("floating_signals")
  BY <1>1, SectionFacts, StageFacts DEF IInv, Kept, Built
<1>5. Range(created) \subseteq Listened \cup Sourced
  BY DEF IInv, Kept, BoundInv
<1>6. PICK s \in Range(created) :
        ~(SignalValid(s) /\ (s \in driven \/ s \in immutables))
  BY <1>1 DEF Valid
<1>7. ~Connected
  <2> SUFFICES ASSUME Connected PROVE FALSE
    OBVIOUS
  <2>1. s \in Sourced
    BY <1>5, <1>6 DEF Connected
  <2>2. s \in driven \/ s \in immutables
    BY <1>3, <2>1
  <2>3. s \in Listened \cup Range(floats)
    BY <1>4, <2>1 DEF Connected
  <2>4. SignalValid(s)
    BY <1>3, <2>3 DEF SignalValid
  <2> QED BY <1>6, <2>2, <2>4
<1>8. ~Connected' /\ result' = "exit"
  BY <1>1, <1>7, SameFiles DEF Fail
<1>9. VerdictMatches'
  BY <1>8 DEF VerdictMatches
<1> QED BY <1>1, <1>9, FailStep

\* The handlers that constructors post are those of units and those of input
\* lines.
LEMMA PostingCount ==
  ASSUME IsFiniteSet(Posting)
  PROVE  Cardinality(Posting) = Cardinality(Places("power_sequencer"))
                                  + Cardinality(Lines \cap Places("inputs"))
<1> DEFINE A == Places("power_sequencer")
           B == Lines \cap Places("inputs")
<1>1. A \cap B = {}
  <2>1. \A p \in A : p[2] = "power_sequencer"
    BY SectionFacts, PlaceCalls
  <2>2. \A p \in B : p[2] = "inputs"
    BY SectionFacts, PlaceCalls
  <2> QED BY <2>1, <2>2
<1>2. Posting = A \cup B
  BY DEF Posting
<1> HIDE DEF A, B
<1>3. IsFiniteSet(A) /\ IsFiniteSet(B)
  BY <1>2, FS_Subset
<1>4. Cardinality(A \cup B) = Cardinality(A) + Cardinality(B) - Cardinality(A \cap B)
  BY <1>3, FS_Union
<1>5. Cardinality(A \cap B) = 0
  BY <1>1, FS_EmptySet
<1>6. Cardinality(A) \in Nat /\ Cardinality(B) \in Nat
  BY <1>3, FS_CardinalityType
<1>7. Cardinality(Posting) = Cardinality(A) + Cardinality(B)
  BY <1>2, <1>4, <1>5, <1>6
<1> QED BY <1>7 DEF A, B

\* When the program runs, the verdict is right and its state is as assumed.
LEMMA RunStep ==
  ASSUME IInv, Run
  PROVE  IInv'
<1>1. Built /\ Valid /\ result = "none" /\ result' = "running"
  BY DEF Run, Built
<1>2. PICK q, done, cur : Placed(q, done, cur)
  BY DEF IInv
<1>3. /\ done = AllPlaces /\ calls = <<>> /\ WellFormed
      /\ Listened \subseteq receivers
      /\ Sourced \subseteq driven \cup immutables
      /\ Needed \cap trouble.absent = {}
      /\ ~Clash
      /\ handler
  BY <1>1, <1>2, BuiltFacts
<1>4. PICK e : e = <<"evaluate", "dirty">>
  OBVIOUS
<1>5. e[1] = "evaluate" /\ e \in ({"evaluate"} \cup Op) \X Name
  <2>1. e[1] = "evaluate"
    BY <1>4
  <2>2. <<"evaluate", "dirty">> \in ({"evaluate"} \cup Op) \X Name
    BY NamesAssumption
  <2> QED BY <1>4, <2>1, <2>2
<1>6. /\ contents' = contents /\ trouble' = trouble /\ pending' = pending
      /\ found' = found /\ cfg' = cfg /\ floats' = floats /\ stage' = stage
      /\ calls' = calls /\ created' = created /\ recorded' = recorded
      /\ high' = high /\ receivers' = receivers /\ driven' = driven
      /\ immutables' = immutables /\ held' = held /\ handler' = handler
      /\ posted' = Append(posted, e)
  BY <1>4 DEF Run, loadVars, providerVars
<1>7. /\ AllPlaces' = AllPlaces /\ Yaml' = Yaml /\ Lines' = Lines
      /\ Listened' = Listened /\ Sourced' = Sourced /\ Given' = Given
      /\ Needed' = Needed /\ WellFormed' = WellFormed
      /\ Connected' = Connected
      /\ \A p : /\ ItemAt(p)' = ItemAt(p) /\ NodeAt(p)' = NodeAt(p)
                /\ LineAt(p)' = LineAt(p) /\ CallsAt(p)' = CallsAt(p)
      /\ \A s : PlacesOf(s)' = PlacesOf(s) /\ Places(s)' = Places(s)
      /\ \A s : Buildable(s)' = Buildable(s) /\ Items(s)' = Items(s)
  BY <1>6, SameFiles
<1>8. /\ TypeOK /\ FileInv /\ BoundInv /\ AllRecorded
  BY DEF IInv, Kept
<1> DEFINE S == ({"evaluate"} \cup Op) \X Name
           n == Len(posted)
<1>9. /\ posted' \in Seq(S) /\ n \in Nat
      /\ DOMAIN posted = 1..n /\ DOMAIN posted' = 1..(n + 1)
      /\ Len(posted') = n + 1
      /\ \A k \in 1..n : posted'[k] = posted[k]
      /\ posted'[n + 1] = e
  <2>1. posted \in Seq(S) /\ e \in S
    BY <1>5, <1>8 DEF TypeOK
  <2> HIDE DEF S
  <2> QED BY <1>6, <2>1, AppendShape
<1>10. TypeOK'
  BY <1>1, <1>6, <1>7, <1>8, <1>9 DEF TypeOK
<1>11. ~Has(Posts) /\ ~Has({"high", "low"})
  BY <1>3 DEF Has, Range
<1> HIDE DEF S, n
<1>12. /\ \A k \in 1..n : posted[k][1] \in Posts
       /\ n = Cardinality(Posting)
  <2>1. /\ \A k \in DOMAIN posted : posted[k][1] \in Posts
        /\ n + 0 = Cardinality(done \cap Posting)
    BY <1>1, <1>2, <1>11 DEF Placed, CountInv, n
  <2>2. Posting \subseteq AllPlaces
    BY SectionFacts, PlaceCalls DEF Posting
  <2>3. done \cap Posting = Posting
    BY <1>3, <2>2
  <2>4. n + 0 = Cardinality(Posting)
    BY <2>1, <2>3
  <2>5. \A k \in 1..n : posted[k][1] \in Posts
    BY <1>9, <2>1
  <2> QED BY <1>9, <2>4, <2>5
<1>13. /\ handler' /\ Cardinality(Posting) \in Nat
       /\ n = Cardinality(Places("power_sequencer"))
                + Cardinality(Lines \cap Places("inputs"))
  <2>1. IsFiniteSet(Posting)
    <3>1. Posting \subseteq done
      BY <1>3, SectionFacts, PlaceCalls DEF Posting
    <3> QED BY <1>2, <3>1, FS_Subset DEF Placed, DoneInv
  <2> QED BY <1>3, <1>6, <1>12, <2>1, PostingCount, FS_CardinalityType
<1>14. \A k \in DOMAIN posted' : posted'[k][1] = "evaluate" <=> k = Len(posted')
  <2> SUFFICES ASSUME NEW k \in DOMAIN posted'
               PROVE  posted'[k][1] = "evaluate" <=> k = Len(posted')
    OBVIOUS
  <2>1. CASE k \in 1..n
    <3>1. posted'[k][1] \in Posts /\ k # n + 1
      BY <1>9, <1>12, <2>1
    <3> QED BY <1>9, <3>1 DEF Posts
  <2>2. CASE k = n + 1
    BY <1>5, <1>9, <2>2
  <2> QED BY <1>9, <2>1, <2>2
<1>15. Len(posted') = 1 + Cardinality(Places("power_sequencer"))
                        + Cardinality(Lines \cap Places("inputs"))
  <2> DEFINE a == Cardinality(Places("power_sequencer"))
             b == Cardinality(Lines \cap Places("inputs"))
  <2>1. a \in Nat /\ b \in Nat
    <3>1. Posting \subseteq done /\ IsFiniteSet(done)
      BY <1>2, <1>3, SectionFacts, PlaceCalls DEF Posting, Placed, DoneInv
    <3>2. /\ IsFiniteSet(Places("power_sequencer"))
          /\ IsFiniteSet(Lines \cap Places("inputs"))
      BY <3>1, FS_Subset DEF Posting
    <3> QED BY <3>2, FS_CardinalityType
  <2>2. Len(posted') = n + 1 /\ n = a + b
    BY <1>9, <1>13
  <2> HIDE DEF a, b
  <2>3. Len(posted') = 1 + a + b
    BY <2>1, <2>2
  <2> QED BY <2>3 DEF a, b
<1>16. Range(created) = Listened \cup Sourced
  BY <1>3, <1>8 DEF BoundInv, TypeOK
<1>17. ASSUME NEW node \in Items("immutables"), ~Contradicted(node)
       PROVE  node["signal_name"] \in high <=> node["value"]
  <2>1. PICK p \in Places("immutables") : NodeAt(p) = node
    BY SectionFacts, ItemPlace
  <2>2. p \in done
    BY <1>3, <2>1, SectionFacts, PlaceCalls
  <2>3. LevelAt(p, cur)
    BY <1>2, <2>1, <2>2 DEF Placed, LevelInv
  <2>4. Range(calls) = {}
    BY <1>3 DEF Range
  <2> QED BY <1>11, <1>17, <2>1, <2>3, <2>4 DEF LevelAt, Contradicted
<1>18. StartsAsAssumed'
  <2>1. \A node : Contradicted(node)' <=> Contradicted(node)
    BY <1>6, <1>7 DEF Contradicted
  <2>2. Range(created)' = (Listened \cup Sourced)'
    BY <1>6, <1>7, <1>16
  <2>3. (high \subseteq Given)'
    BY <1>6, <1>7, <1>8 DEF BoundInv
  <2>4. (\A node \in Items("immutables") :
           \/ Contradicted(node)
           \/ node["signal_name"] \in high <=> node["value"])'
    BY <1>6, <1>7, <1>17, <2>1
  <2>5. (Len(posted) = 1 + Cardinality(Places("power_sequencer"))
                        + Cardinality(Lines \cap Places("inputs")))'
    BY <1>7, <1>15
  <2> QED BY <1>13, <1>14, <2>2, <2>3, <2>4, <2>5 DEF StartsAsAssumed
<1>19. Connected
  <2>1. Range(floats) = Items("floating_signals")
    BY <1>1, SectionFacts, StageFacts DEF IInv, Kept, Built
  <2>2. Listened \subseteq Sourced
    <3> SUFFICES ASSUME NEW s \in Listened PROVE s \in Sourced
      OBVIOUS
    <3>1. s \in driven \/ s \in immutables
      BY <1>1, <1>16 DEF Valid
    <3> QED BY <1>8, <3>1 DEF BoundInv
  <2>3. Sourced \subseteq Listened \cup Items("floating_signals")
    <3> SUFFICES ASSUME NEW s \in Sourced
                 PROVE  s \in Listened \cup Items("floating_signals")
      OBVIOUS
    <3>1. SignalValid(s)
      BY <1>1, <1>16 DEF Valid
    <3> QED BY <1>8, <2>1, <3>1 DEF BoundInv, SignalValid
  <2> QED BY <2>2, <2>3 DEF Connected
<1>20. VerdictMatches'
  <2>1. ~Clash'
    BY <1>3, <1>6, <1>7 DEF Clash
  <2> QED BY <1>1, <1>3, <1>6, <1>7, <1>19, <2>1 DEF VerdictMatches
<1>21. Kept'
  <2>1. FileInv'
    BY <1>6, <1>7, <1>8 DEF FileInv
  <2>2. BoundInv'
    BY <1>6, <1>7, <1>8 DEF BoundInv
  <2>3. AllRecorded'
    BY <1>6, <1>8 DEF AllRecorded
  <2> QED BY <1>6, <1>10, <2>1, <2>2, <2>3 DEF IInv, Kept
<1>22. Placed(q, done, cur)'
  <2>1. \A p : Loaded(p)' = Loaded(p)
    BY <1>6 DEF Loaded
  <2>2. WaitInv(q, done)'
    BY <1>2, <1>6, <1>7, <2>1 DEF Placed, WaitInv
  <2>3. DoneInv(done)'
    BY <1>2, <1>7, <2>1 DEF Placed, DoneInv
  <2>4. CallInv(done, cur)'
    BY <1>2, <1>6, <1>7 DEF Placed, CallInv
  <2>5. EffectInv(done, cur)'
    <3>1. \A c : Performed(c)' <=> Performed(c)
      BY <1>6 DEF Performed
    <3> QED BY <1>2, <1>6, <1>7, <3>1 DEF Placed, EffectInv
  <2>6. CountInv(done)'
    BY <1>1 DEF CountInv
  <2>7. \A ops : Has(ops)' <=> Has(ops)
    BY <1>6 DEF Has
  <2>8. HeldInv(done, cur)'
    BY <1>2, <1>6, <1>7, <2>7 DEF Placed, HeldInv
  <2>9. LevelInv(done, cur)'
    <3>1. \A p : LevelAt(p, cur)' <=> LevelAt(p, cur)
      BY <1>6, <1>7, <2>7 DEF LevelAt
    <3> QED BY <1>2, <1>7, <3>1 DEF Placed, LevelInv
  <2> QED BY <2>2, <2>3, <2>4, <2>5, <2>6, <2>8, <2>9 DEF Placed
<1> QED BY <1>18, <1>20, <1>21, <1>22 DEF IInv

-----------------------------------------------------------------------------
\* Two lists one after the other.
LEMMA JoinShape ==
  ASSUME NEW S, NEW a \in Seq(S), NEW g \in Seq(S), NEW j, j = a \o g,
         NEW n, n = Len(a), NEW m, m = Len(g)
  PROVE  /\ n \in Nat /\ m \in Nat
         /\ DOMAIN a = 1..n /\ DOMAIN g = 1..m /\ DOMAIN j = 1..(n + m)
         /\ j \in Seq(S) /\ Len(j) = n + m
         /\ \A k \in 1..n : j[k] = a[k]
         /\ \A k \in (n + 1)..(n + m) : j[k] = g[k - n] /\ k - n \in 1..m
<1>1. n \in Nat /\ m \in Nat /\ DOMAIN a = 1..n /\ DOMAIN g = 1..m
  BY LenProperties
<1>2. /\ j \in Seq(S) /\ Len(j) = n + m
      /\ \A k \in 1..(n + m) : j[k] = IF k <= n THEN a[k] ELSE g[k - n]
  BY ConcatProperties
<1>3. DOMAIN j = 1..(n + m)
  BY <1>2, LenProperties
<1> QED BY <1>1, <1>2, <1>3

\* A file that is not a configuration is skipped.
LEMMA SkipFileStep ==
  ASSUME IInv, NEW f \in File, SkipFile(f)
  PROVE  IInv'
<1>1. PICK q, done, cur : Placed(q, done, cur)
  BY DEF IInv
<1>2. /\ result = "none" /\ stage = 0 /\ f \in pending /\ f \notin Yaml
      /\ pending' = pending \ {f}
      /\ contents' = contents /\ trouble' = trouble
      /\ found' = found /\ cfg' = cfg /\ floats' = floats /\ stage' = stage
      /\ calls' = calls /\ UNCHANGED providerVars /\ held' = held
      /\ posted' = posted /\ result' = result
  BY DEF SkipFile, Loading, Yaml
<1>3. /\ DoneInv(done)' /\ CallInv(done, cur)' /\ EffectInv(done, cur)'
      /\ CountInv(done)' /\ HeldInv(done, cur)' /\ LevelInv(done, cur)'
      /\ AllRecorded' /\ BoundInv'
  BY <1>1, <1>2, Standing DEF IInv, Kept, Placed
<1>4. /\ AllPlaces' = AllPlaces /\ Yaml' = Yaml
      /\ \A p : ItemAt(p)' = ItemAt(p)
      /\ \A s : PlacesOf(s)' = PlacesOf(s)
      /\ \A s : Buildable(s)' = Buildable(s)
  BY <1>2, SameFiles
<1>5. WaitInv(q, done)'
  <2>1. \A p : Loaded(p) => Loaded(p)'
    BY <1>2 DEF Loaded
  <2>2. ASSUME NEW p \in AllPlaces, Loaded(p)'
        PROVE  Loaded(p)
    <3>1. CASE p = ACPIPlace
      BY <3>1, PlaceCalls DEF Loaded
    <3>2. CASE p # ACPIPlace
      <4>1. p[1] \in Yaml
        BY <3>2, PlaceCalls, PlaceNode
      <4> QED BY <1>2, <2>2, <4>1 DEF Loaded
    <3> QED BY <3>1, <3>2
  <2>3. WaitInv(q, done)
    BY <1>1 DEF Placed
  <2> QED BY <1>2, <1>4, <2>1, <2>2, <2>3 DEF WaitInv
<1>6. FileInv'
  <2>1. Yaml \ pending' = Yaml \ pending
    BY <1>2
  <2>2. FileInv
    BY DEF IInv, Kept
  <2> QED BY <1>2, <1>4, <2>1, <2>2 DEF FileInv
<1>7. TypeOK'
  BY <1>2, <1>4 DEF IInv, Kept, TypeOK, providerVars
<1>8. Kept' /\ Placed(q, done, cur)'
  BY <1>2, <1>3, <1>5, <1>6, <1>7 DEF IInv, Kept, Placed
<1>9. VerdictMatches' /\ StartsAsAssumed'
  BY <1>2 DEF VerdictMatches, StartsAsAssumed
<1> QED BY <1>8, <1>9 DEF IInv

\* A section without units left is left.
LEMMA NextSectionStep ==
  ASSUME IInv, NextSection
  PROVE  IInv'
<1>1. PICK q, done, cur : Placed(q, done, cur)
  BY DEF IInv
<1>2. /\ result = "none" /\ stage' = stage + 1
      /\ contents' = contents /\ trouble' = trouble /\ pending' = pending
      /\ found' = found /\ cfg' = cfg /\ floats' = floats
      /\ calls' = calls /\ UNCHANGED providerVars /\ held' = held
      /\ posted' = posted /\ result' = result
  BY DEF NextSection, loadVars
<1>3. /\ DoneInv(done)' /\ CallInv(done, cur)' /\ EffectInv(done, cur)'
      /\ CountInv(done)' /\ HeldInv(done, cur)' /\ LevelInv(done, cur)'
      /\ AllRecorded' /\ BoundInv'
  BY <1>1, <1>2, Standing DEF IInv, Kept, Placed
<1>4. /\ AllPlaces' = AllPlaces /\ Yaml' = Yaml
      /\ \A p : ItemAt(p)' = ItemAt(p)
      /\ \A s : PlacesOf(s)' = PlacesOf(s)
      /\ \A s : Buildable(s)' = Buildable(s)
  BY <1>2, SameFiles
<1>5. WaitInv(q, done)'
  <2>1. \A p : Loaded(p)' = Loaded(p)
    BY <1>2 DEF Loaded
  <2>2. WaitInv(q, done)
    BY <1>1 DEF Placed
  <2> QED BY <1>2, <1>4, <2>1, <2>2 DEF WaitInv
<1>6. TypeOK /\ FileInv
  BY DEF IInv, Kept
<1>7. stage \in 0..6 /\ calls = <<>>
  <2>1. stage \in 0..7
    BY <1>6, SectionFacts DEF TypeOK
  <2> QED BY <1>6, <2>1, SectionFacts DEF NextSection, FileInv
<1>8. FileInv'
  <2>1. pending = {} /\ found
    <3>1. CASE stage = 0
      BY <3>1 DEF NextSection
    <3>2. CASE stage > 0
      BY <1>6, <3>2 DEF FileInv
    <3> QED BY <1>7, <3>1, <3>2
  <2>2. \A j \in 1..6 : j < stage' => cfg[Sections[j]] = <<>>
    <3> SUFFICES ASSUME NEW j \in 1..6, j < stage'
                 PROVE  cfg[Sections[j]] = <<>>
      OBVIOUS
    <3>1. CASE j < stage
      BY <1>6, <3>1 DEF FileInv
    <3>2. CASE j = stage
      BY <3>2 DEF NextSection
    <3> QED BY <1>2, <1>7, <3>1, <3>2
  <2> QED BY <1>2, <1>4, <1>6, <1>7, <2>1, <2>2 DEF FileInv
<1>9. TypeOK'
  <2>1. stage' \in 0..Len(Sections) + 1
    BY <1>2, <1>7, SectionFacts
  <2> QED BY <1>2, <1>4, <1>6, <2>1 DEF TypeOK, providerVars
<1>10. Kept' /\ Placed(q, done, cur)'
  BY <1>2, <1>3, <1>5, <1>8, <1>9 DEF IInv, Kept, Placed
<1>11. VerdictMatches' /\ StartsAsAssumed'
  BY <1>2 DEF VerdictMatches, StartsAsAssumed
<1> QED BY <1>10, <1>11 DEF IInv

\* The nodes a file adds to a section, and their places.
LEMMA FileNodes ==
  ASSUME contents \in Trees, NEW f \in Yaml, FileOK(contents[f]),
         NEW s \in Decoded, NEW ns, ns = Nodes(contents[f], s),
         NEW g, g = [k \in DOMAIN ns |-> <<f, s, k>>]
  PROVE  /\ ns \in Seq(Buildable(s))
         /\ g \in Seq(Places(s))
         /\ Len(g) = Len(ns)
         /\ \A k \in 1..Len(ns) :
              g[k] = <<f, s, k>> /\ ns[k] = ItemAt(g[k])
<1>1. f \in File /\ s # "acpi" /\ s \in Section
  BY SectionFacts DEF Yaml
<1>2. ns \in Seq(Range(ns))
  BY <1>1, TreesAssumption
<1>3. Len(ns) \in Nat /\ DOMAIN ns = 1..Len(ns)
  BY <1>2, LenProperties
<1>4. ASSUME NEW k \in DOMAIN ns
      PROVE  /\ ns[k] \in Buildable(s)
             /\ <<f, s, k>> \in Places(s)
             /\ ns[k] = ItemAt(<<f, s, k>>)
  <2>1. NodeOK(s, ns[k])
    BY DEF FileOK
  <2>2. ns[k] \in Items(s)
    BY DEF Items, Range
  <2>3. <<f, s, k>> \in Places(s)
    BY DEF Places
  <2>4. ItemAt(<<f, s, k>>) = ns[k]
    BY <1>1 DEF ItemAt, NodeAt
  <2> QED BY <1>1, <2>1, <2>2, <2>3, <2>4 DEF Buildable
<1> HIDE DEF Yaml
<1>5. ns \in Seq(Buildable(s))
  <2>1. ns \in [1..Len(ns) -> Range(ns)]
    BY <1>2, LenProperties
  <2>2. ns \in [1..Len(ns) -> Buildable(s)]
    BY <1>3, <1>4, <2>1
  <2> QED BY <1>3, <2>2, SeqDef
<1>6. g \in Seq(Places(s))
  <2>1. g \in [1..Len(ns) -> Places(s)]
    BY <1>3, <1>4
  <2> QED BY <1>3, <2>1, SeqDef
<1>7. DOMAIN g = 1..Len(ns)
  BY <1>3
<1>8. Len(g) = Len(ns)
  BY <1>3, <1>6, <1>7, LenProperties
<1>9. \A k \in 1..Len(ns) : g[k] = <<f, s, k>> /\ ns[k] = ItemAt(g[k])
  BY <1>3, <1>4
<1> QED BY <1>5, <1>6, <1>8, <1>9

\* The nodes of a file are put behind those that wait.
LEMMA MergeWait ==
  ASSUME contents \in Trees, TypeOK, NEW f \in pending \cap Yaml,
         FileOK(contents[f]), contents' = contents, pending' = pending \ {f},
         NEW q, NEW done, WaitInv(q, done), DoneInv(done),
         NEW w, w = [s \in Section |->
                      IF s = "acpi" THEN q[s]
                      ELSE q[s] \o [k \in DOMAIN Nodes(contents[f], s) |->
                                    <<f, s, k>>]],
         cfg' = [s \in Section |->
                  IF s = "acpi" THEN cfg[s]
                  ELSE cfg[s] \o Nodes(contents[f], s)]
  PROVE  /\ WaitInv(w, done)'
         /\ \A s \in Section : cfg'[s] \in Seq(Buildable(s))
<1>1. /\ \A p : ItemAt(p)' = ItemAt(p)
      /\ \A s : PlacesOf(s)' = PlacesOf(s)
      /\ AllPlaces' = AllPlaces
  BY SameFiles
<1>2. \A p : Loaded(p) => Loaded(p)'
  BY DEF Loaded
<1>3. DOMAIN w = Section
  OBVIOUS
<1>4. \A s \in Section : cfg[s] \in Seq(Buildable(s))
  BY DEF TypeOK
<1>5. ASSUME NEW s \in Section
      PROVE  /\ q[s] \in Seq(PlacesOf(s))
             /\ Len(q[s]) = Len(cfg[s])
             /\ \A k \in DOMAIN q[s] :
                  /\ q[s][k] \notin done
                  /\ Loaded(q[s][k])
                  /\ cfg[s][k] = ItemAt(q[s][k])
             /\ IsInjective(q[s])
  BY DEF WaitInv
<1>6. ASSUME NEW s \in Decoded
      PROVE  /\ w[s] \in Seq(Places(s))
             /\ Len(w[s]) = Len(cfg'[s])
             /\ \A k \in DOMAIN w[s] :
                  /\ w[s][k] \notin done
                  /\ Loaded(w[s][k])'
                  /\ cfg'[s][k] = ItemAt(w[s][k])
             /\ IsInjective(w[s])
             /\ Range(q[s]) \subseteq Range(w[s])
             /\ \A k \in DOMAIN Nodes(contents[f], s) :
                  <<f, s, k>> \in Range(w[s])
             /\ cfg'[s] \in Seq(Buildable(s))
  <2>1. s # "acpi" /\ s \in Section
    BY SectionFacts
  <2>a. PICK a : a = q[s]
    OBVIOUS
  <2>b. PICK b : b = cfg[s]
    OBVIOUS
  <2>ns. PICK ns : ns = Nodes(contents[f], s)
    OBVIOUS
  <2>g. PICK g : g = [k \in DOMAIN ns |-> <<f, s, k>>]
    OBVIOUS
  <2>j. PICK j : j = a \o g
    OBVIOUS
  <2>c. PICK c : c = b \o ns
    OBVIOUS
  <2>n. PICK n : n = Len(a)
    OBVIOUS
  <2>m. PICK m : m = Len(ns)
    OBVIOUS
  <2>2. w[s] = j /\ cfg'[s] = c
    BY <2>1, <2>a, <2>b, <2>ns, <2>g, <2>j, <2>c
  <2>3. /\ ns \in Seq(Buildable(s)) /\ g \in Seq(Places(s)) /\ Len(g) = m
        /\ \A k \in 1..m : g[k] = <<f, s, k>> /\ ns[k] = ItemAt(g[k])
    <3>1. f \in Yaml
      OBVIOUS
    <3>2. ns \in Seq(Buildable(s))
      BY <2>ns, <2>g, <3>1, FileNodes
    <3>3. g \in Seq(Places(s)) /\ Len(g) = Len(ns)
      BY <2>ns, <2>g, <3>1, FileNodes
    <3>4. \A k \in 1..Len(ns) : g[k] = <<f, s, k>> /\ ns[k] = ItemAt(g[k])
      <4>1. DOMAIN ns = 1..Len(ns)
        BY <3>2, LenProperties
      <4> SUFFICES ASSUME NEW k \in 1..Len(ns)
                   PROVE  g[k] = <<f, s, k>> /\ ns[k] = ItemAt(g[k])
        OBVIOUS
      <4>2. g[k] = <<f, s, k>>
        BY <2>g, <4>1
      <4>3. ItemAt(<<f, s, k>>) = ns[k]
        BY <2>1, <2>ns DEF ItemAt, NodeAt
      <4> QED BY <4>2, <4>3
    <3> QED BY <2>m, <3>2, <3>3, <3>4
  <2>4. /\ a \in Seq(Places(s)) /\ b \in Seq(Buildable(s)) /\ Len(b) = n
        /\ DOMAIN a = 1..n /\ DOMAIN ns = 1..m
    <3>1. a \in Seq(Places(s)) /\ b \in Seq(Buildable(s)) /\ Len(b) = n
      BY <1>4, <1>5, <2>1, <2>a, <2>b, <2>n DEF PlacesOf
    <3> QED BY <2>3, <2>n, <2>m, <3>1, LenProperties
  <2>5. /\ \A k \in 1..n :
             a[k] \notin done /\ Loaded(a[k]) /\ b[k] = ItemAt(a[k])
        /\ \A x, y \in 1..n : a[x] = a[y] => x = y
    BY <1>5, <2>1, <2>4, <2>a, <2>b DEF IsInjective
  <2>6. /\ j \in Seq(Places(s)) /\ c \in Seq(Buildable(s))
        /\ n + m \in Nat /\ Len(j) = n + m /\ Len(c) = n + m
        /\ \A k \in 1..(n + m) :
             j[k] \notin done /\ Loaded(j[k])' /\ c[k] = ItemAt(j[k])
        /\ \A x, y \in 1..(n + m) : j[x] = j[y] => x = y
        /\ \A k \in 1..n : a[k] \in Range(j)
        /\ \A k \in 1..m : <<f, s, k>> \in Range(j)
    <3>1. /\ n \in Nat /\ m \in Nat /\ DOMAIN j = 1..(n + m)
          /\ j \in Seq(Places(s)) /\ Len(j) = n + m
          /\ \A k \in 1..n : j[k] = a[k]
          /\ \A k \in (n + 1)..(n + m) : j[k] = g[k - n] /\ k - n \in 1..m
      <4>1. /\ a \in Seq(Places(s)) /\ g \in Seq(Places(s)) /\ j = a \o g
            /\ n = Len(a) /\ m = Len(g)
        BY <2>3, <2>4, <2>j, <2>n
      <4> QED BY ONLY <4>1, JoinShape
    <3>2. /\ c \in Seq(Buildable(s)) /\ Len(c) = n + m
          /\ \A k \in 1..n : c[k] = b[k]
          /\ \A k \in (n + 1)..(n + m) : c[k] = ns[k - n]
      <4>1. /\ b \in Seq(Buildable(s)) /\ ns \in Seq(Buildable(s))
            /\ c = b \o ns /\ n = Len(b) /\ m = Len(ns)
        BY <2>3, <2>4, <2>c, <2>m
      <4> QED BY ONLY <4>1, JoinShape
    <3>3. \A k \in 1..(n + m) : k \in 1..n \/ k \in (n + 1)..(n + m)
      BY <3>1
    <3>4. ASSUME NEW k \in (n + 1)..(n + m)
          PROVE  \E i \in 1..m : /\ i = k - n
                                 /\ j[k] = <<f, s, i>>
                                 /\ c[k] = ItemAt(j[k])
                                 /\ Loaded(j[k])' /\ ~Loaded(j[k])
      <4>1. PICK i \in 1..m : i = k - n
        BY <3>1
      <4>2. j[k] = g[i] /\ c[k] = ns[i]
        BY <3>1, <3>2, <4>1
      <4>3. PICK p : p = <<f, s, i>>
        OBVIOUS
      <4>4. j[k] = p /\ c[k] = ItemAt(p)
        BY <2>3, <4>2, <4>3
      <4>5. p[1] = f /\ p[2] = s
        BY <4>3
      <4>6. Loaded(p)' /\ ~Loaded(p)
        BY <2>1, <4>5 DEF Loaded
      <4> QED BY <4>1, <4>3, <4>4, <4>6
    <3>5. ASSUME NEW k \in 1..n
          PROVE  /\ j[k] = a[k] /\ j[k] \notin done /\ c[k] = ItemAt(j[k])
                 /\ Loaded(j[k]) /\ Loaded(j[k])'
      <4>1. j[k] = a[k] /\ c[k] = b[k]
        BY <3>1, <3>2
      <4>2. Loaded(a[k]) => Loaded(a[k])'
        BY DEF Loaded
      <4> QED BY <2>5, <4>1, <4>2
    <3>6. ASSUME NEW k \in 1..(n + m)
          PROVE  j[k] \notin done /\ Loaded(j[k])' /\ c[k] = ItemAt(j[k])
      <4>1. CASE k \in 1..n
        BY <3>5, <4>1
      <4>2. CASE k \in (n + 1)..(n + m)
        <5>1. /\ c[k] = ItemAt(j[k]) /\ Loaded(j[k])' /\ ~Loaded(j[k])
          BY <3>4, <4>2
        <5>2. j[k] \notin done
          BY <5>1 DEF DoneInv
        <5> QED BY <5>1, <5>2
      <4> QED BY <3>3, <4>1, <4>2
    <3>7. ASSUME NEW x \in 1..(n + m), NEW y \in 1..(n + m), j[x] = j[y]
          PROVE  x = y
      <4>1. CASE x \in 1..n /\ y \in 1..n
        BY <2>5, <3>5, <3>7, <4>1
      <4>2. ASSUME NEW u \in 1..n, NEW v \in (n + 1)..(n + m)
            PROVE  j[u] # j[v]
        <5>1. Loaded(j[u]) /\ ~Loaded(j[v])
          BY <3>4, <3>5
        <5> QED BY <5>1
      <4>3. CASE x \in (n + 1)..(n + m) /\ y \in (n + 1)..(n + m)
        <5>1. PICK i \in 1..m : i = x - n /\ j[x] = <<f, s, i>>
          BY <3>4, <4>3
        <5>2. PICK k \in 1..m : k = y - n /\ j[y] = <<f, s, k>>
          BY <3>4, <4>3
        <5>3. <<f, s, i>> = <<f, s, k>>
          BY <3>7, <5>1, <5>2
        <5>4. i = k
          BY ONLY <5>3
        <5> QED BY <3>1, <4>3, <5>1, <5>2, <5>4
      <4>4. x \in 1..n \/ x \in (n + 1)..(n + m)
        BY <3>3
      <4>5. y \in 1..n \/ y \in (n + 1)..(n + m)
        BY <3>3
      <4> QED BY <3>7, <4>1, <4>2, <4>3, <4>4, <4>5
    <3>8. ASSUME NEW k \in 1..n
          PROVE  a[k] \in Range(j)
      <4>1. k \in DOMAIN j /\ a[k] = j[k]
        BY <3>1
      <4> QED BY <4>1 DEF Range
    <3>9. ASSUME NEW i \in 1..m
          PROVE  <<f, s, i>> \in Range(j)
      <4>1. n + i \in (n + 1)..(n + m) /\ (n + i) - n = i /\ n + i \in 1..(n + m)
        BY <3>1
      <4>2. j[n + i] = <<f, s, i>>
        BY <3>4, <4>1
      <4> QED BY <3>1, <4>1, <4>2 DEF Range
    <3> QED BY <3>1, <3>2, <3>6, <3>7, <3>8, <3>9
  <2>7. DOMAIN j = 1..(n + m)
    BY <2>6, LenProperties
  <2>8. IsInjective(j)
    BY <2>6, <2>7 DEF IsInjective
  <2>9. Range(a) \subseteq Range(j)
    BY <2>4, <2>6 DEF Range
  <2>10. /\ \A k \in DOMAIN j :
              j[k] \notin done /\ Loaded(j[k])' /\ c[k] = ItemAt(j[k])
         /\ \A k \in DOMAIN ns : <<f, s, k>> \in Range(j)
    BY <2>4, <2>6, <2>7
  <2> QED BY <2>2, <2>6, <2>8, <2>9, <2>10, <2>a, <2>ns
<1>7. "acpi" \in Section /\ w["acpi"] = q["acpi"] /\ cfg'["acpi"] = cfg["acpi"]
  BY SectionFacts
<1>8. \A s \in Section : s = "acpi" \/ s \in Decoded
  BY SectionFacts
<1>9. ASSUME NEW s \in Section
      PROVE  /\ w[s] \in Seq(PlacesOf(s))
             /\ Len(w[s]) = Len(cfg'[s])
             /\ \A k \in DOMAIN w[s] :
                  /\ w[s][k] \notin done
                  /\ Loaded(w[s][k])'
                  /\ cfg'[s][k] = ItemAt(w[s][k])
             /\ IsInjective(w[s])
             /\ Range(q[s]) \subseteq Range(w[s])
             /\ cfg'[s] \in Seq(Buildable(s))
  <2>1. CASE s = "acpi"
    BY <1>2, <1>4, <1>5, <1>7, <2>1
  <2>2. CASE s # "acpi"
    <3>1. s \in Decoded /\ PlacesOf(s) = Places(s)
      BY <1>8, <2>2 DEF PlacesOf
    <3> QED BY <1>6, <3>1
  <2> QED BY <2>1, <2>2
<1>10. ASSUME NEW p \in AllPlaces, Loaded(p)'
       PROVE  p \in done \/ p \in Range(w[p[2]])
  <2>1. p[2] \in Section
    BY PlaceCalls, SectionFacts
  <2>2. CASE Loaded(p)
    <3>1. p \in done \/ p \in Range(q[p[2]])
      BY <2>2 DEF WaitInv
    <3> QED BY <1>9, <2>1, <3>1
  <2>3. CASE ~Loaded(p)
    <3>1. p[2] # "acpi" /\ p[1] = f
      BY <1>10, <2>3 DEF Loaded
    <3>2. PICK s \in Decoded : p \in Places(s)
      BY <3>1, PlaceCalls
    <3>3. PICK k : k = p[3]
      OBVIOUS
    <3>4. p[2] = s /\ p = <<f, s, k>> /\ k \in DOMAIN Nodes(contents[f], s)
      BY <3>1, <3>2, <3>3, PlaceNode
    <3>5. \A i \in DOMAIN Nodes(contents[f], s) : <<f, s, i>> \in Range(w[s])
      BY <1>6
    <3>6. <<f, s, k>> \in Range(w[s])
      BY <3>4, <3>5
    <3> QED BY <3>4, <3>6
  <2> QED BY <2>2, <2>3
<1>11. WaitInv(w, done)'
  <2>1. \A s \in Section :
          /\ w[s] \in Seq(PlacesOf(s)')
          /\ Len(w[s]) = Len(cfg'[s])
          /\ \A k \in DOMAIN w[s] :
                /\ w[s][k] \notin done
                /\ Loaded(w[s][k])'
                /\ cfg'[s][k] = ItemAt(w[s][k])'
          /\ IsInjective(w[s])
    <3> SUFFICES ASSUME NEW s \in Section
                 PROVE  /\ w[s] \in Seq(PlacesOf(s)')
                        /\ Len(w[s]) = Len(cfg'[s])
                        /\ \A k \in DOMAIN w[s] :
                              /\ w[s][k] \notin done
                              /\ Loaded(w[s][k])'
                              /\ cfg'[s][k] = ItemAt(w[s][k])'
                        /\ IsInjective(w[s])
      OBVIOUS
    <3>1. PlacesOf(s)' = PlacesOf(s)
      BY <1>1
    <3>2. \A p : ItemAt(p)' = ItemAt(p)
      BY <1>1
    <3> QED BY <1>9, <3>1, <3>2
  <2>2. \A p \in AllPlaces' : Loaded(p)' => p \in done \/ p \in Range(w[p[2]])
    BY <1>1, <1>10
  <2> QED BY ONLY <1>3, <2>1, <2>2 DEF WaitInv
<1> QED BY <1>9, <1>11

\* Merging a file keeps the invariant: its places wait from then on.
LEMMA MergeFileStep ==
  ASSUME IInv, NEW f \in File, MergeFile(f)
  PROVE  IInv'
<1>1. PICK q, done, cur : Placed(q, done, cur)
  BY DEF IInv
<1>2. /\ result = "none" /\ stage = 0 /\ f \in pending /\ f \in Yaml
      /\ FileOK(contents[f])
      /\ pending' = pending \ {f} /\ found' = TRUE
      /\ contents' = contents /\ trouble' = trouble /\ stage' = stage
      /\ calls' = calls /\ UNCHANGED providerVars /\ held' = held
      /\ posted' = posted /\ result' = result
      /\ floats' = floats \o Nodes(contents[f], "floating_signals")
      /\ cfg' = [s \in Section |->
                  IF s = "acpi" THEN cfg[s]
                  ELSE cfg[s] \o Nodes(contents[f], s)]
  BY DEF MergeFile, Loading, Yaml
<1>3. /\ DoneInv(done)' /\ CallInv(done, cur)' /\ EffectInv(done, cur)'
      /\ CountInv(done)' /\ HeldInv(done, cur)' /\ LevelInv(done, cur)'
      /\ AllRecorded' /\ BoundInv'
  BY <1>1, <1>2, Standing DEF IInv, Kept, Placed
<1>4. TypeOK /\ FileInv /\ contents \in Trees
  BY DEF IInv, Kept
<1>5. PICK w : w = [s \in Section |->
                     IF s = "acpi" THEN q[s]
                     ELSE q[s] \o [k \in DOMAIN Nodes(contents[f], s) |->
                                   <<f, s, k>>]]
  OBVIOUS
<1>6. WaitInv(w, done)' /\ \A s \in Section : cfg'[s] \in Seq(Buildable(s))
  <2>1. WaitInv(q, done) /\ DoneInv(done)
    BY <1>1 DEF Placed
  <2> QED BY <1>2, <1>4, <1>5, <2>1, MergeWait
<1>7. PICK g : g = Nodes(contents[f], "floating_signals")
  OBVIOUS
<1>8. floats \in Seq(Name) /\ g \in Seq(Name) /\ floats' = floats \o g
  <2>1. g \in Seq(Name)
    BY <1>4, <1>7, TreesAssumption
  <2> QED BY <1>2, <1>4, <1>7, <2>1 DEF TypeOK
<1>9. /\ Yaml' = Yaml
      /\ \A s : Buildable(s)' = Buildable(s)
  BY <1>2, SameFiles
<1>10. FileInv'
  <2>1. \A x : x \in Yaml \ pending' <=> x = f \/ x \in Yaml \ pending
    BY <1>2
  <2>2. \A x \in Yaml \ pending' : FileOK(contents[x])
    BY <1>2, <1>4, <2>1 DEF FileInv
  <2>3. Range(floats') = Range(floats) \cup Range(g)
    BY <1>8, RangeConcatenation
  <2>4. Range(floats) = UNION {Range(Nodes(contents[x], "floating_signals")) :
                                 x \in Yaml \ pending}
    BY <1>4 DEF FileInv
  <2>5. Range(floats') = UNION {Range(Nodes(contents[x], "floating_signals")) :
                                 x \in Yaml \ pending'}
    BY <1>7, <2>1, <2>3, <2>4
  <2>6. Yaml \ pending' # {}
    BY <2>1
  <2>7. calls' = <<>>
    BY <1>2, <1>4 DEF FileInv
  <2> QED BY <1>2, <1>9, <2>2, <2>5, <2>6, <2>7 DEF FileInv
<1>11. TypeOK'
  <2>1. floats' \in Seq(Name)
    BY <1>8, ConcatProperties
  <2>2. DOMAIN cfg' = Section /\ pending' \subseteq File
    BY <1>2, <1>4 DEF TypeOK
  <2> QED BY <1>2, <1>4, <1>6, <1>9, <2>1, <2>2 DEF TypeOK, providerVars
<1>12. Kept' /\ Placed(w, done, cur)'
  BY <1>2, <1>3, <1>4, <1>6, <1>10, <1>11 DEF Kept, Placed
<1>13. VerdictMatches' /\ StartsAsAssumed'
  BY <1>2 DEF VerdictMatches, StartsAsAssumed
<1> QED BY <1>12, <1>13 DEF IInv

\* The calls of ACPIStates, which no file has a part in, are calls.
LEMMA ACPITyped == ACPICalls \in Seq(Call)
<1> DEFINE need == << <<"need", "dbus">> >>
           observed == [k \in DOMAIN ObservedStates |->
                          <<"listen", ObservedStates[k]>>]
           last == << <<"find", "STATE_REQ_HOST_ON">>,
                      <<"find", "STATE_REQ_CHASSIS_ON">>,
                      <<"drive", "STATE_REQ_HOST_ON">>,
                      <<"drive", "STATE_REQ_CHASSIS_ON">>,
                      <<"event", "dirty">> >>
<1>1. /\ "dbus" \in Name /\ "dirty" \in Name
      /\ "STATE_REQ_HOST_ON" \in Name /\ "STATE_REQ_CHASSIS_ON" \in Name
      /\ \A k \in DOMAIN ObservedStates : ObservedStates[k] \in Name
  BY NamesAssumption DEF Range
<1>2. \A name \in Name : /\ <<"need", name>> \in Call
                         /\ <<"listen", name>> \in Call
                         /\ <<"find", name>> \in Call
                         /\ <<"drive", name>> \in Call
                         /\ <<"event", name>> \in Call
  BY DEF Call, Op
<1>3. need \in Seq(Call)
  <2>1. <<"need", "dbus">> \in Call
    BY <1>1, <1>2
  <2> QED BY <2>1
<1>4. observed \in Seq(Call)
  <2>1. DOMAIN ObservedStates = 1..4
    BY DEF ObservedStates
  <2>2. observed \in [1..4 -> Call]
    BY <1>1, <1>2, <2>1
  <2>3. 4 \in Nat
    OBVIOUS
  <2> QED BY <2>2, <2>3, SeqDef
<1>5. last \in Seq(Call)
  <2>1. /\ <<"find", "STATE_REQ_HOST_ON">> \in Call
        /\ <<"find", "STATE_REQ_CHASSIS_ON">> \in Call
        /\ <<"drive", "STATE_REQ_HOST_ON">> \in Call
        /\ <<"drive", "STATE_REQ_CHASSIS_ON">> \in Call
        /\ <<"event", "dirty">> \in Call
    BY <1>1, <1>2
  <2> QED BY <2>1
<1>6. ACPICalls = (need \o observed) \o last
  BY DEF ACPICalls
<1> HIDE DEF need, observed, last
<1>7. need \o observed \in Seq(Call)
  BY <1>3, <1>4, ConcatProperties
<1> QED BY <1>5, <1>6, <1>7, ConcatProperties

\* What is left of a list without repetition when its first element is taken.
LEMMA TailOnce ==
  ASSUME NEW S, NEW a \in Seq(S), a # <<>>, IsInjective(a),
         NEW t, t = Tail(a)
  PROVE  IsInjective(t) /\ a[1] \notin Range(t)
<1>1. PICK n : n = Len(a)
  OBVIOUS
<1>2. /\ n \in Nat /\ n >= 1 /\ DOMAIN a = 1..n /\ DOMAIN t = 1..(n - 1)
      /\ \A k \in 1..(n - 1) : t[k] = a[k + 1] /\ k + 1 \in 1..n
  BY <1>1, TailShape
<1>3. \A x, y \in 1..n : a[x] = a[y] => x = y
  BY <1>2 DEF IsInjective
<1>4. ASSUME NEW x \in 1..(n - 1), NEW y \in 1..(n - 1), t[x] = t[y]
      PROVE  x = y
  <2>1. x + 1 = y + 1
    BY <1>2, <1>3, <1>4
  <2> QED BY <1>2, <2>1
<1>5. ASSUME NEW x \in 1..(n - 1)
      PROVE  t[x] # a[1]
  <2>1. 1 \in 1..n /\ x + 1 # 1
    BY <1>2
  <2> QED BY <1>2, <1>3, <2>1
<1> QED BY <1>2, <1>4, <1>5 DEF IsInjective, Range

\* The lists without the first element of one of them.
Taken(lists, s) == [lists EXCEPT ![s] = Tail(@)]

\* The next unit is taken from those that wait.
LEMMA UnitWait ==
  ASSUME TypeOK, contents' = contents, pending' = pending,
         NEW q, NEW done, WaitInv(q, done),
         NEW s \in Section, cfg[s] # <<>>, cfg' = Taken(cfg, s),
         NEW w, w = Taken(q, s), NEW p, p = q[s][1]
  PROVE  /\ WaitInv(w, done \cup {p})'
         /\ p \in AllPlaces /\ p \notin done /\ Loaded(p) /\ p[2] = s
         /\ Head(cfg[s]) = ItemAt(p)
         /\ \A r \in Section : cfg'[r] \in Seq(Buildable(r))
<1>1. /\ \A x : ItemAt(x)' = ItemAt(x) /\ Loaded(x)' = Loaded(x)
      /\ \A r : PlacesOf(r)' = PlacesOf(r)
      /\ AllPlaces' = AllPlaces
  BY SameFiles DEF Loaded
<1>2. DOMAIN w = Section /\ DOMAIN q = Section /\ DOMAIN cfg = Section
  BY DEF WaitInv, TypeOK, Taken
<1>3. \A r \in Section : cfg[r] \in Seq(Buildable(r))
  BY DEF TypeOK
<1>4. ASSUME NEW r \in Section
      PROVE  /\ q[r] \in Seq(PlacesOf(r))
             /\ Len(q[r]) = Len(cfg[r])
             /\ \A k \in DOMAIN q[r] :
                  /\ q[r][k] \notin done
                  /\ Loaded(q[r][k])
                  /\ cfg[r][k] = ItemAt(q[r][k])
             /\ IsInjective(q[r])
  BY DEF WaitInv
<1>5. ASSUME NEW r \in Section, NEW x \in PlacesOf(r)
      PROVE  x[2] = r /\ x \in AllPlaces
  <2>1. CASE r = "acpi"
    BY <1>5, <2>1, PlaceCalls DEF PlacesOf
  <2>2. CASE r # "acpi"
    <3>1. r \in Decoded /\ x \in Places(r)
      BY <1>5, <2>2, SectionFacts DEF PlacesOf
    <3> QED BY <3>1, PlaceCalls
  <2> QED BY <2>1, <2>2
<1>6. PICK a : a = q[s]
  OBVIOUS
<1>7. PICK b : b = cfg[s]
  OBVIOUS
<1>8. PICK t : t = Tail(a)
  OBVIOUS
<1>9. PICK u : u = Tail(b)
  OBVIOUS
<1>10. PICK n : n = Len(a)
  OBVIOUS
<1>11. /\ w[s] = t /\ cfg'[s] = u
       /\ \A r \in Section : r # s => w[r] = q[r] /\ cfg'[r] = cfg[r]
  BY <1>2, <1>6, <1>7, <1>8, <1>9 DEF Taken
<1>12. /\ a \in Seq(PlacesOf(s)) /\ b \in Seq(Buildable(s)) /\ n = Len(b)
       /\ b # <<>>
  BY <1>3, <1>4, <1>6, <1>7, <1>10
<1>13. /\ n \in Nat /\ n >= 1 /\ DOMAIN b = 1..n /\ DOMAIN u = 1..(n - 1)
       /\ u \in Seq(Buildable(s)) /\ Head(b) = b[1]
       /\ \A k \in 1..(n - 1) : u[k] = b[k + 1]
  BY ONLY <1>9, <1>12, TailShape
<1>14. a # <<>>
  <2>1. Len(<<>>) = 0
    OBVIOUS
  <2> QED BY <1>10, <1>13, <2>1
<1>15. /\ DOMAIN a = 1..n /\ DOMAIN t = 1..(n - 1)
       /\ t \in Seq(PlacesOf(s)) /\ a[1] \in PlacesOf(s)
       /\ \A k \in 1..(n - 1) : t[k] = a[k + 1]
       /\ \A x : x \in Range(a) <=> x = a[1] \/ x \in Range(t)
  <2>1. a \in Seq(PlacesOf(s)) /\ a # <<>> /\ t = Tail(a) /\ n = Len(a)
    BY <1>8, <1>10, <1>12, <1>14
  <2>2. /\ DOMAIN a = 1..n /\ DOMAIN t = 1..(n - 1)
        /\ t \in Seq(PlacesOf(s)) /\ a[1] \in PlacesOf(s)
        /\ \A k \in 1..(n - 1) : t[k] = a[k + 1]
    BY ONLY <2>1, TailShape
  <2>3. \A x : x \in Range(a) <=> x = a[1] \/ x \in Range(t)
    <3>1. Range(a) = {a[1]} \cup Range(Tail(a))
      BY <2>1, TailRange
    <3> QED BY <2>1, <3>1
  <2> QED BY <2>2, <2>3
<1>16. Len(t) = n - 1 /\ Len(u) = n - 1
  BY <1>13, <1>15, LenProperties
<1>17. IsInjective(a)
  BY <1>4, <1>6
<1>18. IsInjective(t) /\ p \notin Range(t) /\ p = a[1]
  <2>1. p = a[1]
    BY <1>6
  <2> QED BY <1>8, <1>12, <1>14, <1>17, <2>1, TailOnce
<1>19. \A k \in 1..n : a[k] \notin done /\ Loaded(a[k]) /\ b[k] = ItemAt(a[k])
  BY <1>4, <1>6, <1>7, <1>15
<1>20. /\ p \in AllPlaces /\ p[2] = s /\ p \notin done /\ Loaded(p)
       /\ Head(b) = ItemAt(p)
  <2>1. 1 \in 1..n
    BY <1>13
  <2>2. p \notin done /\ Loaded(p) /\ b[1] = ItemAt(p)
    BY <1>18, <1>19, <2>1
  <2>3. p \in PlacesOf(s)
    BY <1>15, <1>18
  <2> QED BY <1>5, <1>13, <2>2, <2>3
<1>21. ASSUME NEW r \in Section
       PROVE  /\ w[r] \in Seq(PlacesOf(r))
              /\ Len(w[r]) = Len(cfg'[r])
              /\ \A k \in DOMAIN w[r] :
                   /\ w[r][k] \notin done \cup {p}
                   /\ Loaded(w[r][k])
                   /\ cfg'[r][k] = ItemAt(w[r][k])
              /\ IsInjective(w[r])
              /\ cfg'[r] \in Seq(Buildable(r))
  <2>1. CASE r = s
    <3>1. \A k \in 1..(n - 1) : k + 1 \in 1..n
      BY <1>13
    <3>2. \A k \in DOMAIN t : t[k] # p
      BY <1>18 DEF Range
    <3>3. \A k \in DOMAIN t :
             t[k] \notin done \cup {p} /\ Loaded(t[k]) /\ u[k] = ItemAt(t[k])
      BY <1>13, <1>15, <1>19, <3>1, <3>2
    <3> QED BY <1>11, <1>13, <1>15, <1>16, <1>18, <2>1, <3>3
  <2>2. CASE r # s
    <3>1. w[r] = q[r] /\ cfg'[r] = cfg[r]
      BY <1>11, <2>2
    <3>2. \A k \in DOMAIN q[r] : q[r][k] \in PlacesOf(r)
      BY <1>4, LenProperties
    <3>3. \A k \in DOMAIN q[r] : q[r][k] # p
      BY <1>5, <1>20, <2>2, <3>2
    <3> QED BY <1>3, <1>4, <3>1, <3>3
  <2> QED BY <2>1, <2>2
<1>22. ASSUME NEW x \in AllPlaces, Loaded(x)
       PROVE  x \in done \cup {p} \/ x \in Range(w[x[2]])
  <2>1. x \in done \/ x \in Range(q[x[2]])
    BY <1>22 DEF WaitInv
  <2>2. CASE x[2] = s
    BY <1>6, <1>11, <1>15, <1>18, <2>1, <2>2
  <2>3. CASE x[2] # s
    <3>1. x[2] \in Section
      BY <1>5 DEF AllPlaces
    <3> QED BY <1>11, <2>1, <2>3, <3>1
  <2> QED BY <2>2, <2>3
<1>23. WaitInv(w, done \cup {p})'
  <2>1. \A r \in Section :
          /\ w[r] \in Seq(PlacesOf(r)')
          /\ Len(w[r]) = Len(cfg'[r])
          /\ \A k \in DOMAIN w[r] :
                /\ w[r][k] \notin done \cup {p}
                /\ Loaded(w[r][k])'
                /\ cfg'[r][k] = ItemAt(w[r][k])'
          /\ IsInjective(w[r])
    <3> SUFFICES ASSUME NEW r \in Section
                 PROVE  /\ w[r] \in Seq(PlacesOf(r)')
                        /\ Len(w[r]) = Len(cfg'[r])
                        /\ \A k \in DOMAIN w[r] :
                              /\ w[r][k] \notin done \cup {p}
                              /\ Loaded(w[r][k])'
                              /\ cfg'[r][k] = ItemAt(w[r][k])'
                        /\ IsInjective(w[r])
      OBVIOUS
    <3>1. PlacesOf(r)' = PlacesOf(r)
      BY <1>1
    <3>2. \A x : ItemAt(x)' = ItemAt(x) /\ Loaded(x)' = Loaded(x)
      BY <1>1
    <3> QED BY <1>21, <3>1, <3>2
  <2>2. \A x \in AllPlaces' :
          Loaded(x)' => x \in done \cup {p} \/ x \in Range(w[x[2]])
    BY <1>1, <1>22
  <2> QED BY ONLY <1>2, <2>1, <2>2 DEF WaitInv
<1> QED BY <1>7, <1>20, <1>21, <1>23

\* Entering a constructor keeps the invariant: its place is done, and all its
\* calls are to be made.
LEMMA NextUnitStep ==
  ASSUME IInv, NextUnit
  PROVE  IInv'
<1>1. PICK q, done, cur : Placed(q, done, cur)
  BY DEF IInv
<1>2. /\ result = "none" /\ stage \in 1..6 /\ calls = <<>>
      /\ contents' = contents /\ trouble' = trouble /\ pending' = pending
      /\ found' = found /\ floats' = floats /\ stage' = stage
      /\ UNCHANGED providerVars /\ held' = held
      /\ posted' = posted /\ result' = result
  BY SectionFacts DEF NextUnit
<1>3. /\ created' = created /\ recorded' = recorded /\ high' = high
      /\ receivers' = receivers /\ driven' = driven
      /\ immutables' = immutables /\ handler' = handler
  BY <1>2 DEF providerVars
<1>4. TypeOK /\ FileInv /\ contents \in Trees
  BY DEF IInv, Kept
<1>5. PICK s \in Section : s = Sections[stage]
  BY <1>2, SectionFacts
<1>6. /\ cfg[s] # <<>> /\ calls' = Constructor(s, Head(cfg[s]))
      /\ cfg' = [cfg EXCEPT ![s] = Tail(@)]
  BY <1>5 DEF NextUnit
<1>7. PICK p : p = q[s][1]
  OBVIOUS
<1>8. PICK w : w = [q EXCEPT ![s] = Tail(@)]
  OBVIOUS
<1>9. PICK all : all = done \cup {p}
  OBVIOUS
<1>10. /\ WaitInv(w, all)'
       /\ p \in AllPlaces /\ p \notin done /\ Loaded(p) /\ p[2] = s
       /\ Head(cfg[s]) = ItemAt(p)
       /\ \A r \in Section : cfg'[r] \in Seq(Buildable(r))
  <2>1. WaitInv(q, done)
    BY <1>1 DEF Placed
  <2>2. /\ TypeOK /\ contents' = contents /\ pending' = pending
        /\ s \in Section /\ WaitInv(q, done) /\ cfg[s] # <<>>
        /\ cfg' = Taken(cfg, s) /\ w = Taken(q, s) /\ p = q[s][1]
    BY <1>2, <1>4, <1>6, <1>7, <1>8, <2>1 DEF Taken
  <2>3. /\ WaitInv(w, done \cup {p})'
        /\ p \in AllPlaces /\ p \notin done /\ Loaded(p) /\ p[2] = s
        /\ Head(cfg[s]) = ItemAt(p)
        /\ \A r \in Section : cfg'[r] \in Seq(Buildable(r))
    BY ONLY <2>2, UnitWait
  <2> QED BY <1>9, <2>3
<1>11. PICK list : list = CallsAt(p)
  OBVIOUS
<1>12. calls' = list
  BY <1>6, <1>10, <1>11 DEF CallsAt
<1>13. /\ AllPlaces' = AllPlaces /\ Lines' = Lines /\ Posting' = Posting
       /\ Listened' = Listened /\ Sourced' = Sourced /\ Given' = Given
       /\ \A x : NodeAt(x)' = NodeAt(x) /\ LineAt(x)' = LineAt(x)
       /\ \A x : CallsAt(x)' = CallsAt(x) /\ Loaded(x)' = Loaded(x)
       /\ \A r : Buildable(r)' = Buildable(r)
       /\ Places("immutables")' = Places("immutables")
       /\ Items("immutables")' = Items("immutables")
       /\ Yaml' = Yaml
  BY <1>2, SameFiles DEF Loaded
<1>14. \A c \in Range(list) : Meant(p, c)
  BY <1>4, <1>10, <1>11, CallMeaning
<1>15. /\ DoneInv(done) /\ EffectInv(done, cur) /\ CountInv(done)
       /\ HeldInv(done, cur) /\ LevelInv(done, cur)
  BY <1>1 DEF Placed
<1>16. \A ops : ~Has(ops)
  BY <1>2 DEF Has, Range
<1>17. \A ops : Has(ops)' <=> \E c \in Range(list) : c[1] \in ops
  BY <1>12 DEF Has
<1>18. FileInv'
  <2>1. \A j \in 1..6 : j < stage => cfg'[Sections[j]] = <<>>
    <3> SUFFICES ASSUME NEW j \in 1..6, j < stage
                 PROVE  cfg'[Sections[j]] = <<>>
      OBVIOUS
    <3>1. Sections[j] # s /\ Sections[j] \in Section
      BY <1>2, <1>5, SectionFacts
    <3>2. cfg[Sections[j]] = <<>>
      BY <1>4 DEF FileInv
    <3>3. DOMAIN cfg = Section
      BY <1>4 DEF TypeOK
    <3> QED BY <1>6, <3>1, <3>2, <3>3
  <2>2. stage \notin {0, 7}
    BY <1>2
  <2> QED BY <1>2, <1>4, <1>13, <2>1, <2>2 DEF FileInv
<1>19. DoneInv(all)'
  <2>1. IsFiniteSet(all)
    BY <1>9, <1>15, FS_AddElement DEF DoneInv
  <2>2. all \subseteq AllPlaces /\ \A x \in all : Loaded(x)
    BY <1>9, <1>10, <1>15 DEF DoneInv
  <2> QED BY <1>13, <2>1, <2>2 DEF DoneInv
<1>20. CallInv(all, p)'
  <2>1. Ordered(list)
    BY <1>4, <1>10, <1>11, PlaceOrder
  <2>2. Prepared(list, Range(created)') /\ Tidy(list)
    BY <2>1, OrderedFacts
  <2>3. p \in all /\ Range(list) = Range(CallsAt(p))'
    BY <1>9, <1>11, <1>13
  <2> QED BY <1>12, <2>2, <2>3 DEF CallInv
<1>21. EffectInv(all, p)'
  <2> SUFFICES ASSUME NEW x \in all, NEW c \in Range(CallsAt(x))
               PROVE  Performed(c)' \/ (x = p /\ c \in Range(list))
    BY <1>12, <1>13 DEF EffectInv
  <2>1. CASE x = p
    BY <1>11, <2>1
  <2>2. CASE x # p
    <3>1. x \in done
      BY <1>9, <2>2
    <3>2. c \notin Range(calls)
      BY <1>2 DEF Range
    <3>3. Performed(c)
      BY <1>15, <3>1, <3>2 DEF EffectInv
    <3> QED BY <1>2, <1>3, <3>3 DEF Performed
  <2> QED BY <2>1, <2>2
<1>22. CountInv(all)'
  <2>1. PICK n : n = Cardinality(done \cap Posting)
    OBVIOUS
  <2>2. /\ \A k \in DOMAIN posted : posted[k][1] \in Posts
        /\ Len(posted) + 0 = n
    <3>1. /\ \A k \in DOMAIN posted : posted[k][1] \in Posts
          /\ Len(posted) + (IF Has(Posts) THEN 1 ELSE 0) = n
      BY <1>2, <1>15, <2>1 DEF CountInv
    <3>2. ~Has(Posts)
      BY <1>16
    <3> QED BY <3>1, <3>2
  <2>3. IsFiniteSet(done \cap Posting) /\ n \in Nat
    <3>1. IsFiniteSet(done)
      BY <1>15 DEF DoneInv
    <3>2. IsFiniteSet(done \cap Posting)
      BY <3>1, FS_Subset
    <3> QED BY <2>1, <3>2, FS_CardinalityType
  <2>4. CASE p \in Posting
    <3>1. Has(Posts)'
      BY <1>4, <1>11, <1>17, <2>4, PostingAsked
    <3>2. all \cap Posting = (done \cap Posting) \cup {p}
      BY <1>9, <2>4
    <3>3. p \notin done \cap Posting
      BY <1>10
    <3>4. Cardinality(all \cap Posting) = n + 1
      BY <2>1, <2>3, <3>2, <3>3, FS_AddElement
    <3>5. Len(posted) = n
      BY <1>4, <2>2, LenProperties DEF TypeOK
    <3>6. Len(posted') + (IF Has(Posts)' THEN 1 ELSE 0)
            = Cardinality(all \cap Posting')
      BY <1>2, <1>13, <3>1, <3>4, <3>5
    <3> QED BY <1>2, <2>2, <3>6 DEF CountInv
  <2>5. CASE p \notin Posting
    <3>1. ~Has(Posts)'
      BY <1>14, <1>17, <2>5 DEF Meant
    <3>2. all \cap Posting = done \cap Posting
      BY <1>9, <2>5
    <3>3. Len(posted') + (IF Has(Posts)' THEN 1 ELSE 0)
            = Cardinality(all \cap Posting')
      BY <1>2, <1>13, <2>1, <2>2, <3>1, <3>2
    <3> QED BY <1>2, <2>2, <3>3 DEF CountInv
  <2> QED BY <2>4, <2>5
<1>23. HeldInv(all, p)'
  <2>1. ASSUME NEW l \in held
        PROVE  \E x \in all \cap Lines : LineAt(x) = l /\ x # p
    <3>1. PICK x \in done \cap Lines : LineAt(x) = l
      BY <1>15 DEF HeldInv
    <3> QED BY <1>9, <1>10, <3>1
  <2>2. ASSUME NEW x \in done \cap Lines, NEW y \in done \cap Lines,
               x # y, LineAt(x) = LineAt(y)
        PROVE  FALSE
    <3>1. ~Has({"request"})
      BY <1>16
    <3> QED BY <1>15, <2>2, <3>1 DEF HeldInv
  <2>3. p \in Lines => Has({"request"})'
    BY <1>11, <1>17, LineAsked
  <2>4. \A x, y \in all \cap Lines :
          x # y /\ LineAt(x) = LineAt(y) => Has({"request"})' /\ p \in {x, y}
    BY <1>9, <2>2, <2>3
  <2> QED BY <1>2, <1>13, <2>1, <2>4 DEF HeldInv
<1>24. LevelInv(all, p)'
  <2> SUFFICES ASSUME NEW x \in all \cap Places("immutables")
               PROVE  LevelAt(x, p)'
    BY <1>13 DEF LevelInv
  <2>1. CASE x = p
    <3>1. "immutables" \in Decoded
      BY SectionFacts
    <3>2. list = ImmutableCalls(NodeAt(p))
      BY <1>11, <2>1, <3>1, PlaceCalls, Constructors
    <3>3. \E c \in Range(list) : c[1] \in {"high", "low"}
      <4>1. PICK node : node = NodeAt(p)
        OBVIOUS
      <4>2. PICK l : l = IF node["value"] THEN "high" ELSE "low"
        OBVIOUS
      <4>3. <<l, node["signal_name"]>> \in Range(list)
        BY <3>2, <4>1, <4>2, ImmutableRange
      <4> QED BY <4>2, <4>3
    <3>4. Has({"high", "low"})'
      BY <1>17, <3>3
    <3> QED BY <2>1, <3>4 DEF LevelAt
  <2>2. CASE x # p
    <3>1. LevelAt(x, cur)
      BY <1>9, <1>15, <2>2 DEF LevelInv
    <3>2. <<"drive", NodeAt(x)["signal_name"]>> \notin Range(calls)
      BY <1>2 DEF Range
    <3>3. ~Has({"high", "low"})
      BY <1>16
    <3>4. \/ \E other \in Items("immutables") :
               /\ other["signal_name"] = NodeAt(x)["signal_name"]
               /\ other["value"] # NodeAt(x)["value"]
          \/ NodeAt(x)["signal_name"] \in driven
          \/ NodeAt(x)["signal_name"] \in high <=> NodeAt(x)["value"]
      BY <3>1, <3>2, <3>3 DEF LevelAt
    <3> QED BY <1>3, <1>13, <3>4 DEF LevelAt
  <2> QED BY <2>1, <2>2
<1>25. AllRecorded' /\ BoundInv'
  BY <1>3, <1>13 DEF IInv, Kept, AllRecorded, BoundInv
<1>26. TypeOK'
  <2>1. list \in Seq(Call)
    <3>1. CASE p = ACPIPlace
      BY <1>11, <3>1, PlaceCalls, ACPITyped
    <3>2. CASE p # ACPIPlace
      <4>1. PICK r \in Decoded : p \in Places(r)
        BY <1>10, <3>2, PlaceCalls
      <4>2. PICK f \in Yaml : f = p[1]
        BY <4>1, PlaceNode
      <4>3. /\ f \in File
            /\ NodeAt(p) = Nodes(contents[f], r)[p[3]]
            /\ p[3] \in DOMAIN Nodes(contents[f], r)
        BY <4>1, <4>2, PlaceNode DEF Yaml
      <4>4. NodeAt(p) \in Range(Nodes(contents[f], r))
        BY <4>3 DEF Range
      <4>5. FileOK(contents[f])
        BY <1>2, <1>4 DEF FileInv
      <4>6. NodeOK(r, NodeAt(p))
        BY <4>3, <4>5 DEF FileOK
      <4>7. Constructor(r, NodeAt(p)) \in Seq(Call)
        BY <1>4, <4>3, <4>4, <4>6, CallsAssumption
      <4> QED BY <1>11, <4>1, <4>7, PlaceCalls
    <3> QED BY <3>1, <3>2
  <2>2. DOMAIN cfg' = Section
    BY <1>4, <1>6 DEF TypeOK
  <2> QED BY <1>2, <1>3, <1>4, <1>10, <1>12, <1>13, <2>1, <2>2 DEF TypeOK
<1>27. Kept' /\ Placed(w, all, p)'
  BY <1>2, <1>4, <1>10, <1>18, <1>19, <1>20, <1>21, <1>22, <1>23, <1>24,
     <1>25, <1>26 DEF Kept, Placed
<1>28. VerdictMatches' /\ StartsAsAssumed'
  BY <1>2 DEF VerdictMatches, StartsAsAssumed
<1> QED BY <1>27, <1>28 DEF IInv

\* A program that ended keeps the invariant.
LEMMA EndedStep ==
  ASSUME IInv, UNCHANGED vars
  PROVE  IInv'
<1>1. PICK q, done, cur : Placed(q, done, cur)
  BY DEF IInv
<1>2. /\ contents' = contents /\ trouble' = trouble /\ pending' = pending
      /\ found' = found /\ cfg' = cfg /\ floats' = floats /\ stage' = stage
      /\ calls' = calls /\ UNCHANGED providerVars /\ held' = held
      /\ posted' = posted /\ result' = result
  BY DEF vars, loadVars
<1>3. /\ created' = created /\ recorded' = recorded /\ high' = high
      /\ receivers' = receivers /\ driven' = driven
      /\ immutables' = immutables /\ handler' = handler
  BY <1>2 DEF providerVars
<1>4. /\ DoneInv(done)' /\ CallInv(done, cur)' /\ EffectInv(done, cur)'
      /\ CountInv(done)' /\ HeldInv(done, cur)' /\ LevelInv(done, cur)'
      /\ AllRecorded' /\ BoundInv'
  BY <1>1, <1>2, Standing DEF IInv, Kept, Placed
<1>5. /\ AllPlaces' = AllPlaces /\ Yaml' = Yaml
      /\ \A p : ItemAt(p)' = ItemAt(p) /\ Loaded(p)' = Loaded(p)
      /\ \A s : PlacesOf(s)' = PlacesOf(s) /\ Buildable(s)' = Buildable(s)
  BY <1>2, SameFiles DEF Loaded
<1>6. WaitInv(q, done)'
  <2>1. WaitInv(q, done)
    BY <1>1 DEF Placed
  <2> QED BY <1>2, <1>5, <2>1 DEF WaitInv
<1>7. TypeOK' /\ FileInv' /\ contents' \in Trees
  <2>1. TypeOK /\ FileInv /\ contents \in Trees
    BY DEF IInv, Kept
  <2>2. TypeOK'
    BY <1>2, <1>3, <1>5, <2>1 DEF TypeOK
  <2>3. FileInv'
    BY <1>2, <1>5, <2>1 DEF FileInv
  <2> QED BY <1>2, <2>1, <2>2, <2>3
<1>8. Kept' /\ Placed(q, done, cur)'
  BY <1>4, <1>6, <1>7 DEF Kept, Placed
<1>9. /\ WellFormed' = WellFormed /\ Connected' = Connected
      /\ Needed' = Needed /\ Lines' = Lines
      /\ \A p : LineAt(p)' = LineAt(p)
      /\ \A s : Places(s)' = Places(s) /\ Items(s)' = Items(s)
      /\ Listened' = Listened /\ Sourced' = Sourced /\ Given' = Given
  BY <1>2, SameFiles
<1>10. VerdictMatches'
  <2>1. Clash' <=> Clash
    BY <1>2, <1>9 DEF Clash
  <2>2. VerdictMatches
    BY DEF IInv
  <2> QED BY <1>2, <1>9, <2>1, <2>2 DEF VerdictMatches
<1>11. StartsAsAssumed'
  <2>1. \A node : Contradicted(node)' <=> Contradicted(node)
    BY <1>3, <1>9 DEF Contradicted
  <2>2. StartsAsAssumed
    BY DEF IInv
  <2> QED BY <1>2, <1>3, <1>9, <2>1, <2>2 DEF StartsAsAssumed
<1> QED BY <1>8, <1>10, <1>11 DEF IInv

\* At the start the constructor of ACPIStates waits, and nothing else.
LEMMA InitStep ==
  ASSUME Init
  PROVE  IInv
<1>1. /\ contents \in Trees /\ pending = File /\ found = FALSE
      /\ cfg = [s \in Section |-> IF s = "acpi" THEN <<EmptyMap>> ELSE <<>>]
      /\ floats = <<>> /\ stage = 0 /\ calls = <<>> /\ created = <<>>
      /\ recorded = <<>> /\ high = {} /\ receivers = {} /\ driven = {}
      /\ immutables = {} /\ held = {} /\ handler = FALSE /\ posted = <<>>
      /\ result = "none"
  BY DEF Init
<1>2. Range(<<>>) = {}
  BY DEF Range
<1>3. Yaml \ pending = {} /\ Yaml \subseteq File
  BY <1>1 DEF Yaml
<1>4. TypeOK
  <2>1. DOMAIN contents = File
    BY <1>1, TreesAssumption
  <2>2. \A s \in Section : cfg[s] \in Seq(Buildable(s))
    <3> SUFFICES ASSUME NEW s \in Section
                 PROVE  cfg[s] \in Seq(Buildable(s))
      OBVIOUS
    <3>1. CASE s = "acpi"
      <4>1. cfg[s] = <<EmptyMap>> /\ Buildable(s) = {EmptyMap}
        BY <1>1, <3>1 DEF Buildable
      <4>2. EmptyMap \in {EmptyMap}
        OBVIOUS
      <4>3. <<EmptyMap>> \in Seq({EmptyMap})
        BY <4>2
      <4> QED BY <4>1, <4>3
    <3>2. CASE s # "acpi"
      BY <1>1, <3>2
    <3> QED BY <3>1, <3>2
  <2>3. stage \in 0..Len(Sections) + 1
    BY <1>1, SectionFacts
  <2>4. DOMAIN cfg = Section
    BY <1>1
  <2>5. /\ pending \subseteq File /\ found \in BOOLEAN /\ handler \in BOOLEAN
        /\ high \cup receivers \cup driven \cup immutables \subseteq Range(created)
        /\ held \subseteq Name
        /\ result \in {"none", "running", "exit", "abort"}
    BY <1>1
  <2>6. /\ floats \in Seq(Name) /\ calls \in Seq(Call) /\ created \in Seq(Name)
        /\ recorded \in Seq(Name)
        /\ posted \in Seq(({"evaluate"} \cup Op) \X Name)
    BY <1>1
  <2> QED BY ONLY <2>1, <2>2, <2>3, <2>4, <2>5, <2>6 DEF TypeOK
<1>5. AllRecorded
  BY <1>1 DEF AllRecorded, IsInjective
<1>6. FileInv
  <2>1. UNION {Range(Nodes(contents[f], "floating_signals")) :
                 f \in Yaml \ pending} = {}
    BY <1>3
  <2>2. Range(floats) = {}
    BY <1>1, <1>2
  <2> QED BY <1>1, <1>3, <2>1, <2>2 DEF FileInv
<1>7. BoundInv
  BY <1>1, <1>2 DEF BoundInv
<1>8. PICK q : q = [s \in Section |-> IF s = "acpi" THEN <<ACPIPlace>> ELSE <<>>]
  OBVIOUS
<1>9. WaitInv(q, {})
  <2>1. ASSUME NEW s \in Section
        PROVE  /\ q[s] \in Seq(PlacesOf(s))
               /\ Len(q[s]) = Len(cfg[s])
               /\ \A k \in DOMAIN q[s] :
                    /\ q[s][k] \notin {}
                    /\ Loaded(q[s][k])
                    /\ cfg[s][k] = ItemAt(q[s][k])
               /\ IsInjective(q[s])
    <3>1. CASE s = "acpi"
      <4>1. PICK p : p = ACPIPlace
        OBVIOUS
      <4>2. q[s] = <<p>> /\ cfg[s] = <<EmptyMap>> /\ PlacesOf(s) = {p}
        BY <1>1, <1>8, <3>1, <4>1 DEF PlacesOf
      <4>3. p[2] = "acpi"
        BY <4>1, PlaceCalls
      <4>4. Loaded(p) /\ ItemAt(p) = EmptyMap
        BY <4>3 DEF Loaded, ItemAt
      <4>5. DOMAIN <<p>> = {1} /\ <<p>>[1] = p /\ <<EmptyMap>>[1] = EmptyMap
        OBVIOUS
      <4>6. <<p>> \in Seq({p}) /\ Len(<<p>>) = 1 /\ Len(<<EmptyMap>>) = 1
        OBVIOUS
      <4>7. IsInjective(<<p>>)
        BY <4>5 DEF IsInjective
      <4> QED BY <4>2, <4>4, <4>5, <4>6, <4>7
    <3>2. CASE s # "acpi"
      <4>1. q[s] = <<>> /\ cfg[s] = <<>>
        BY <1>1, <1>8, <3>2
      <4>2. IsInjective(<<>>)
        BY DEF IsInjective
      <4> QED BY <4>1, <4>2
    <3> QED BY <3>1, <3>2
  <2>2. ASSUME NEW p \in AllPlaces, Loaded(p)
        PROVE  p \in Range(q[p[2]])
    <3>1. p = ACPIPlace
      <4> SUFFICES ASSUME p # ACPIPlace
                   PROVE  FALSE
        OBVIOUS
      <4>1. PICK s \in Decoded : p \in Places(s)
        BY PlaceCalls
      <4>2. p[1] \in Yaml /\ p[2] = s /\ s # "acpi"
        BY <4>1, PlaceNode, SectionFacts
      <4> QED BY <1>1, <1>3, <2>2, <4>2 DEF Loaded
    <3>2. q[p[2]] = <<p>>
      BY <1>8, <3>1, PlaceCalls, SectionFacts
    <3> QED BY <3>2 DEF Range
  <2>3. DOMAIN q = Section
    BY <1>8
  <2> QED BY <2>1, <2>2, <2>3 DEF WaitInv
<1>10. DoneInv({})
  BY FS_EmptySet DEF DoneInv
<1>11. CallInv({}, ACPIPlace)
  BY <1>1, <1>2 DEF CallInv, Prepared, Tidy
<1>12. /\ EffectInv({}, ACPIPlace) /\ HeldInv({}, ACPIPlace)
       /\ LevelInv({}, ACPIPlace)
  BY <1>1 DEF EffectInv, HeldInv, LevelInv
<1>13. CountInv({})
  <2>1. ~Has(Posts)
    BY <1>1, <1>2 DEF Has
  <2>2. {} \cap Posting = {} /\ Cardinality({}) = 0
    BY FS_EmptySet
  <2>3. Len(posted) = 0 /\ DOMAIN posted = {}
    BY <1>1
  <2> QED BY <2>1, <2>2, <2>3 DEF CountInv
<1>14. Kept /\ Placed(q, {}, ACPIPlace)
  BY <1>1, <1>4, <1>5, <1>6, <1>7, <1>9, <1>10, <1>11, <1>12, <1>13
     DEF Kept, Placed
<1>15. VerdictMatches /\ StartsAsAssumed
  BY <1>1 DEF VerdictMatches, StartsAsAssumed
<1> QED BY <1>14, <1>15 DEF IInv

-----------------------------------------------------------------------------
\* Every step of the program keeps the inductive invariant.
THEOREM Invariance == Spec => []IInv
<1>1. Init => IInv
  BY InitStep
<1>2. IInv /\ [Next]_vars => IInv'
  <2> SUFFICES ASSUME IInv, [Next]_vars
               PROVE  IInv'
    OBVIOUS
  <2>1. ASSUME NEW f \in File, SkipFile(f)
        PROVE  IInv'
    BY <2>1, SkipFileStep
  <2>2. ASSUME NEW f \in File, MergeFile(f)
        PROVE  IInv'
    BY <2>2, MergeFileStep
  <2>3. ASSUME NEW f \in File, RejectFile(f)
        PROVE  IInv'
    BY <2>3, RejectFileStep
  <2>4. CASE NothingFound
    BY <2>4, NothingFoundStep
  <2>5. CASE NextSection
    BY <2>5, NextSectionStep
  <2>6. CASE NextUnit
    BY <2>6, NextUnitStep
  <2>7. CASE Find \/ Listen \/ Drive \/ SetLevel \/ KeepImmutable
             \/ SetDirtyBitEvent \/ HardwareFound \/ LineGranted \/ Post
    BY <2>7, CallActions
  <2>8. CASE HardwareMissing
    BY <2>8, HardwareMissingStep
  <2>9. CASE LineRefused
    BY <2>9, LineRefusedStep
  <2>10. CASE Run
    BY <2>10, RunStep
  <2>11. CASE Invalid
    BY <2>11, InvalidStep
  <2>12. CASE Ended
    BY <2>12, EndedStep DEF Ended
  <2>13. CASE UNCHANGED vars
    BY <2>13, EndedStep
  <2> QED BY <2>1, <2>2, <2>3, <2>4, <2>5, <2>6, <2>7, <2>8, <2>9, <2>10,
             <2>11, <2>12, <2>13 DEF Next
<1> QED BY <1>1, <1>2, PTL DEF Spec

\* The state keeps its types: the lists of SignalProvider hold names, and what
\* is received, driven, set or immutable is one of its signals.
THEOREM TypeTheorem == Spec => []TypeOK
<1>1. IInv => TypeOK
  BY DEF IInv, Kept
<1> QED BY <1>1, Invariance, PTL

\* FindOrAdd and SetLevel record every signal once, when it is created, whatever
\* units the files have and in whatever order their constructors ask for it.
THEOREM RecordedTheorem == Spec => []AllRecorded
<1>1. IInv => AllRecorded
  BY DEF IInv, Kept
<1> QED BY <1>1, Invariance, PTL

\* When StateMachine::Run starts the handlers, one is posted for each unit of
\* logic and each input line, then the first evaluation and no other; the signals
\* are those of the files, and only levels given from outside are high.
THEOREM StartTheorem == Spec => []StartsAsAssumed
<1>1. IInv => StartsAsAssumed
  BY DEF IInv
<1> QED BY <1>1, Invariance, PTL

\* The verdict of main depends on the files and the hardware alone, not on the
\* order the files are read in: it runs only if the files are well formed, connect
\* every signal and find their hardware, and reports an error only if not.
THEOREM VerdictTheorem == Spec => []VerdictMatches
<1>1. IInv => VerdictMatches
  BY DEF IInv
<1> QED BY <1>1, Invariance, PTL
=============================================================================
