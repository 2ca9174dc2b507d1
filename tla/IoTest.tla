------------------------------- MODULE IoTest -------------------------------
(***************************************************************************)
(* The pin part of the host's iotest() and the board it tests. The board's *)
(* pins are wired in pairs by the test jig: input_pins[i], which the test  *)
(* drives, to eva_pins[i], which it reads. In a first pass all driven pins *)
(* are at 1 and each in turn is made a pulled-down input; in a second pass *)
(* they are at 0 and each in turn is pulled up.                            *)
(*                                                                         *)
(* A stage of the test is a command of its loops. Each command is sent,    *)
(* executed by the firmware and answered, and the host reads one line, the *)
(* answer or, after a second without one, nothing: a late answer is then   *)
(* what the next command reads. The answer to a command is abstracted to   *)
(* the level it reports.                                                   *)
(*                                                                         *)
(* The names of the specification's parts begin with Io, so that a module  *)
(* can extend this one together with that of another test.                 *)
(***************************************************************************)
EXTENDS Integers, Sequences, FiniteSets

CONSTANTS N,        \* the number of pairs
          MaxLate   \* bound: late answers

ASSUME IoAssumption == N \in Nat \ {0} /\ MaxLate \in Nat

Pairs  == 1..N
Levels == {0, 1}
None   == -1          \* no level: the answer to "pm", or no answer
Wires  == {"sound", "open", "gnd", "vcc"}
Stages == {"output", "high", "input", "pull", "read", "release", "low", "over"}

VARIABLES wire,     \* the connection of each pair: sound, open, or stuck at a supply rail
          short,    \* the pairs whose eva pins touch, {} or two of them
          float,    \* what an eva pin nothing drives reads
          drive,    \* pinMode of input_pins
          out,      \* digitalWrite of input_pins
          stage,    \* the command to send next ...
          level,    \* ... in the pass that drives the pins to this level ...
          pin,      \* ... of the pair in the outer loop ...
          eva,      \* ... and, for "dr", of this pair
          answers,  \* answers sent and not read: those that came late
          outcome,  \* "none", "OK" or "fail" ...
          failed    \* ... and then the pair whose driven pin is result[2]

boardVars == <<wire, short, float>>
placeVars == <<stage, level, pin, eva>>
ioVars    == <<boardVars, drive, out, placeVars, answers, outcome, failed>>

-----------------------------------------------------------------------------
(* The board.                                                              *)

\* The pairs whose eva pins are one node with pair p's.
Node(p) == IF p \in short THEN short ELSE {p}

Stuck(p)   == {IF wire[q] = "vcc" THEN 1 ELSE 0 : q \in {r \in Node(p) : wire[r] \in {"gnd", "vcc"}}}
Driven(p)  == {out[q] : q \in {r \in Node(p) : wire[r] = "sound" /\ drive[r] = "o"}}
Pulls(p)   == {drive[q] : q \in {r \in Node(p) : wire[r] = "sound"}} \cap {"pd", "pu"}

\* The levels eva pin p may read: a supply rail wins over an output, an
\* output over a pull resistor; two that disagree may read as either.
Reads(p) ==
    IF Stuck(p) # {} THEN Stuck(p)
    ELSE IF Driven(p) # {} THEN Driven(p)
    ELSE IF Pulls(p) # {} THEN {IF m = "pu" THEN 1 ELSE 0 : m \in Pulls(p)}
    ELSE {float[p]}

\* The mode the command sets: "pm" of an eva pin makes it the input it is.
Mode ==
    CASE stage \in {"output", "release"} -> "o"
      [] stage = "pull"                  -> IF level = 1 THEN "pd" ELSE "pu"
      [] OTHER                           -> drive[pin]

\* The firmware executes the command; its answer reports one of the levels.
Execute(l) ==
    /\ drive' = [drive EXCEPT ![pin] = Mode]
    /\ out' = IF stage \in {"high", "low"} THEN [out EXCEPT ![pin] = level] ELSE out
    /\ l \in IF stage = "read" THEN Reads(eva)
             ELSE IF stage \in {"high", "low"} THEN {level} ELSE {None}

-----------------------------------------------------------------------------
(* The host.                                                               *)

\* Mutation: the second pass is left out.
AfterScanOnePass == "over"

AfterScan == IF level = 1 THEN "low" ELSE "over"

\* The next pair of the outer loop, whose first command is s, or what follows it.
Loop(s, following) ==
    IF pin < N THEN stage' = s /\ pin' = pin + 1
               ELSE stage' = following /\ pin' = 1

Advance ==
    /\ \/ stage = "output"  /\ stage' = "high" /\ UNCHANGED pin
       \/ stage = "high"    /\ Loop("output", "input")
       \/ stage = "input"   /\ Loop("input", "pull")
       \/ stage = "pull"    /\ stage' = "read" /\ UNCHANGED pin
       \/ stage = "read"    /\ stage' = (IF eva < N THEN "read" ELSE "release") /\ UNCHANGED pin
       \/ stage = "release" /\ Loop("pull", AfterScan)
       \/ stage = "low"     /\ Loop("low", "pull")
    /\ eva' = IF stage = "read" /\ eva < N THEN eva + 1 ELSE 1
    /\ level' = IF stage' = "low" THEN 0 ELSE level

\* Mutation: only the other level is an error.
AcceptUnlessWrong(l) ==
    stage = "read" =>
        \/ eva = pin
        \/ l # 1 - level

\* Mutation: the branches are the wrong way round.
AcceptOnlyChanged(l) ==
    stage = "read" => l = 1 - level

\* The pin under test may read the changed level, any pin the driven one.
Accept(l) ==
    stage = "read" =>
        \/ eva = pin /\ l = 1 - level
        \/ l = level

ReadAnswer(l) ==
    IF Accept(l)
      THEN /\ Advance
           /\ outcome' = (IF stage' = "over" THEN "OK" ELSE "none")
           /\ UNCHANGED failed
      ELSE /\ outcome' = "fail" /\ failed' = pin
           /\ UNCHANGED placeVars

\* A command is sent and executed, and the host reads the oldest answer ...
Exchange(l) ==
    LET sent == Append(answers, l) IN
      /\ ReadAnswer(Head(sent))
      /\ answers' = Tail(sent)

\* Once late, an answer leaves every later one late.
late == Len(answers)

\* ... or, after a second, nothing.
ExchangeLate(l) ==
    /\ late < MaxLate
    /\ ReadAnswer(None)
    /\ answers' = Append(answers, l)

\* A jig with any wiring, the board after its reset: all pins are inputs.
IoInit ==
    /\ wire \in [Pairs -> Wires]
    /\ short \in {s \in SUBSET Pairs : Cardinality(s) \in {0, 2}}
    /\ float \in [Pairs -> Levels]
    /\ drive = [p \in Pairs |-> "i"]
    /\ out = [p \in Pairs |-> 0]
    /\ stage = "output" /\ level = 1 /\ pin = 1 /\ eva = 1
    /\ answers = <<>>
    /\ outcome = "none"
    /\ failed = 0

IoNext ==
    /\ outcome = "none"
    /\ \E l \in Levels \cup {None} : Execute(l) /\ (Exchange(l) \/ ExchangeLate(l))
    /\ UNCHANGED boardVars

IoSpec == IoInit /\ [][IoNext]_ioVars

-----------------------------------------------------------------------------
(* Properties.                                                             *)

\* Every variable has its type; the verdict names a pair of the jig.
IoTypeOK ==
    /\ wire \in [Pairs -> Wires]
    /\ short \subseteq Pairs
    /\ float \in [Pairs -> Levels]
    /\ drive \in [Pairs -> {"i", "o", "pd", "pu"}]
    /\ out \in [Pairs -> Levels]
    /\ stage \in Stages /\ level \in Levels /\ pin \in Pairs /\ eva \in Pairs
    /\ answers \in Seq(Levels \cup {None}) /\ late <= MaxLate
    /\ outcome \in {"none", "OK", "fail"}
    /\ failed \in Pairs \cup {0}

Sound == wire = [p \in Pairs |-> "sound"]

\* A jig whose wires are all sound passes, unless an answer came late; one in
\* which two pins touch passes too, for both levels are accepted of the pin
\* under test, the only one that a touching pin changes.
SoundWiresPass == Sound /\ late = 0 => outcome # "fail"

\* A jig without touching pins that passes has every pair connected and no pin
\* stuck, however many answers came late and although both levels are accepted
\* of the pin under test: it is the reading of a pin while the others are
\* under test that finds it, and it takes both passes, for an open pin reads a
\* steady level of its own.
PassMeansConnected == outcome = "OK" /\ short = {} /\ N > 1 => Sound

\* No verdict rests on answers to other questions: once an answer is late the
\* readings under one pin are not all accepted, for the answer to the "pm" that
\* made it the pin under test is among them, unless more than N came late.
VerdictIsOwn ==
    [][stage = "read" /\ stage' = "release" /\ late <= N => answers = <<>>]_ioVars
=============================================================================
