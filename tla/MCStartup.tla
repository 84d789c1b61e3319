----------------------------- MODULE MCStartup -----------------------------
(***************************************************************************)
(* A configuration in pieces: some of them may be left out, and some sit   *)
(* in a second file, which may not be a YAML file.                         *)
(***************************************************************************)
EXTENDS Startup, SequencesExt

Piece == {"good", "known", "switch", "rail", "button", "lamp", "twice",
          "broken", "drain"}

Immutable(name, value) == [signal_name |-> name, value |-> value]
Named(name) == [name |-> name]

\* The nodes of a piece, by section.  The item "switch" holds a second unit,
\* which is malformed.
PieceSection(piece) ==
  CASE piece \in {"good", "button"} -> "inputs"
    [] piece = "known" -> "immutables"
    [] piece \in {"switch", "broken"} -> "power_sequencer"
    [] piece = "rail" -> "regulators"
    [] piece \in {"lamp", "twice", "drain"} -> "outputs"

PieceNode(piece) ==
  CASE piece = "good" ->
         [type |-> "gpio", name |-> "L1", signal_name |-> "PGOOD",
          pulldown |-> TRUE]
    [] piece = "button" ->
         [type |-> "null", name |-> "test", signal_name |-> "BUTTON"]
    [] piece = "known" -> Immutable("BUTTON", TRUE)
    [] piece = "switch" ->
         << [in |-> [and |-> <<Named("PGOOD"), Named("STATE_REQ_CHASSIS_ON")>>,
                     or |-> <<[name |-> "BUTTON", invert |-> TRUE]>>],
             out |-> Named("VDD_On")],
            [in |-> EmptyMap, out |-> Named("LOST")] >>
    [] piece = "broken" ->
         << [in |-> [and |-> <<Named("PGOOD")>>],
             out |-> [name |-> "RESET", level |-> TRUE]] >>
    [] piece = "rail" -> Named("VDD")
    [] piece = "lamp" ->
         [type |-> "gpio", name |-> "L2", signal_name |-> "VDD_PowerGood"]
    [] piece = "twice" ->
         [type |-> "gpio", name |-> "L1", signal_name |-> "PGOOD"]
    [] piece = "drain" ->
         [type |-> "null", name |-> "test", signal_name |-> "VDD_Fault",
          open_drain |-> TRUE, open_source |-> TRUE]

\* What every configuration here has.
Base ==
  [immutables |->
     <<Immutable("ACPI_STATE_IS_S5", FALSE),
       Immutable("ACPI_STATE_IS_S3", FALSE),
       Immutable("ACPI_STATE_IS_S0", FALSE),
       Immutable("ACPI_STATE_IS_G3", TRUE)>>,
   floating_signals |-> <<"STATE_REQ_HOST_ON", "VDD_Fault", "VDD_Enabled">>]
NoBase == [immutables |-> <<>>, floating_signals |-> <<>>]

Order == <<"good", "known", "switch", "rail", "button", "lamp", "twice",
           "broken", "drain">>
Chosen(section, pieces) ==
  LET Of(piece) == piece \in pieces /\ PieceSection(piece) = section
  IN FoldLeft(LAMBDA nodes, piece : Append(nodes, PieceNode(piece)), <<>>,
              SelectSeq(Order, Of))

\* A file with these pieces, and with the nodes that are always there.
Content(yaml, pieces, base) ==
  [yaml |-> yaml,
   sections |->
     [immutables |-> base.immutables \o Chosen("immutables", pieces),
      power_sequencer |-> Chosen("power_sequencer", pieces),
      inputs |-> Chosen("inputs", pieces),
      outputs |-> Chosen("outputs", pieces),
      regulators |-> Chosen("regulators", pieces),
      floating_signals |-> base.floating_signals,
      unknown |-> <<>>]]

MCName == STRING
MCFile == {"f1", "f2"}
MCTrees ==
  {[f1 |-> Content(first, pieces \ moved, Base),
    f2 |-> Content(second, pieces \cap moved, NoBase)] :
     pieces \in SUBSET Piece, first \in BOOLEAN, second \in BOOLEAN,
     moved \in {{}, {"rail", "lamp"}, {"good", "known", "switch", "broken"}}}

Rail(name) == [On |-> name[1], Enabled |-> name[2], Fault |-> name[3],
               PowerGood |-> name[4]]
MCRailSignal ==
  [r \in {"VDD"} |->
     Rail(<<"VDD_On", "VDD_Enabled", "VDD_Fault", "VDD_PowerGood">>)]

MCTroubles ==
  {[absent |-> {}, busy |-> {}], [absent |-> {"VDD"}, busy |-> {}],
   [absent |-> {}, busy |-> {"L1"}], [absent |-> {"dbus"}, busy |-> {}]}
=============================================================================
