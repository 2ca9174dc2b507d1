---------------------------- MODULE CarrierSense ----------------------------
(***************************************************************************)
(* Test 09, carrier sense: for each channel func_thread() runs two threads *)
(* that share @send_flg and @result. tester() sets the instrument up,      *)
(* turns its carrier on, waits, tells the other thread to stop, waits and  *)
(* turns the carrier off. snd() sends frames from the board and keeps the  *)
(* last result until it is told to stop; while the carrier is on the board *)
(* finds the channel busy and answers 9. When both have ended the channel  *)
(* passes if the last result is a 9.                                       *)
(*                                                                         *)
(* Time counts in ticks; a timer holds the ticks left. The program's       *)
(* statements take no time, waiting does. Assumed of the parts outside:    *)
(* the instrument's set-up (some thirty commands) outlasts the board's     *)
(* (three), which takes a tick at least.                                   *)
(***************************************************************************)
EXTENDS Naturals

CONSTANTS Timeout,   \* the port's read_timeout
          Sleep,     \* the two "sleep 1"
          MaxCalls   \* bound: calls of func_thread()

ASSUME SenseAssumption ==
    /\ Timeout \in Nat \ {0}
    /\ Sleep \in Nat /\ Sleep > Timeout
    /\ MaxCalls \in Nat

Texts == {"nil", "0", "9"}

VARIABLES call,      \* the calls of func_thread() so far
          verdict,   \* what the last one returned, "none" while it runs
          tester,    \* where the tester thread is ...
          wake,      \* ... and for how long it still sleeps
          carrier,   \* the instrument sends
          snd,       \* where the snd thread is ...
          wait,      \* ... and for how long it still waits for an answer
          reply,     \* the board's answer on its way
          sendFlg,   \* @send_flg
          result,    \* @result
          origin,    \* history: the call that set @result, and whether the carrier was on
          lost,      \* history: the last command got no answer, or not its own whole
          skipped    \* history: in this call snd() did not look at the flag when it was set

testerVars == <<tester, wake, carrier>>
sndVars    == <<snd, wait, reply>>
sharedVars == <<sendFlg, result>>
vars       == <<call, verdict, testerVars, sndVars, sharedVars, origin, lost, skipped>>

NoOrigin == [call |-> 0, busy |-> FALSE]

-----------------------------------------------------------------------------
(* The tester thread.                                                      *)

\* Mutation: @send_flg is not reset.
TesterStartStale ==
    /\ tester = "start"
    /\ tester' = "prepare"
    /\ UNCHANGED <<call, verdict, wake, carrier, sndVars, sharedVars, origin, lost, skipped>>

TesterStart ==
    /\ tester = "start"
    /\ sendFlg' = 0
    /\ tester' = "prepare"
    /\ UNCHANGED <<call, verdict, wake, carrier, sndVars, result, origin, lost, skipped>>

\* The commands up to "OUTP ON" and the first "sleep 1".
TesterOn ==
    /\ tester = "prepare"
    /\ snd # "setup"
    /\ carrier' = TRUE
    /\ tester' = "on" /\ wake' = Sleep
    /\ UNCHANGED <<call, verdict, sndVars, sharedVars, origin, lost, skipped>>

TesterFlag ==
    /\ tester = "on" /\ wake = 0
    /\ sendFlg' = 1
    /\ tester' = "flagged" /\ wake' = Sleep
    /\ UNCHANGED <<call, verdict, carrier, sndVars, result, origin, lost, skipped>>

\* Mutation: the second sleep is left out.
TesterOffAtOnce ==
    /\ tester = "flagged"
    /\ carrier' = FALSE
    /\ tester' = "done"
    /\ UNCHANGED <<call, verdict, wake, sndVars, sharedVars, origin, lost, skipped>>

TesterOff ==
    /\ tester = "flagged" /\ wake = 0
    /\ carrier' = FALSE
    /\ tester' = "done"
    /\ UNCHANGED <<call, verdict, wake, sndVars, sharedVars, origin, lost, skipped>>

-----------------------------------------------------------------------------
(* The snd thread and the board.                                           *)

\* setup(), rw() and wf() have configured the board.
SndSetup ==
    /\ snd = "setup" /\ wait = 0
    /\ snd' = "send"
    /\ UNCHANGED <<call, verdict, testerVars, wait, reply, sharedVars, origin, lost, skipped>>

SndSend ==
    /\ snd = "send"
    /\ snd' = "com" /\ wait' = Timeout /\ reply' = NoOrigin
    /\ lost' = FALSE
    /\ UNCHANGED <<call, verdict, testerVars, sharedVars, origin, skipped>>

\* The board senses the channel, sends or not, and answers.
Board ==
    /\ snd = "com"
    /\ snd' = "answered" /\ reply' = [call |-> call, busy |-> carrier]
    /\ UNCHANGED <<call, verdict, testerVars, wait, sharedVars, origin, lost, skipped>>

\* An answer without "ffff", damaged or another command's (nobody reads the one
\* to wf()), leaves @result alone; one that ends before its fourth field makes it
\* nil.
SndAnswer ==
    /\ snd = "answered"
    /\ \/ result' = (IF reply.busy THEN "9" ELSE "0") /\ origin' = reply /\ UNCHANGED lost
       \/ lost' = TRUE /\ UNCHANGED <<result, origin>>
       \/ lost' = TRUE /\ result' = "nil" /\ origin' = reply
    /\ snd' = "check"
    /\ UNCHANGED <<call, verdict, testerVars, wait, reply, sendFlg, skipped>>

\* An answer that is not valid UTF-8: the exception passes over @result and over
\* the flag, is printed, and the loop goes on.
SndRescue ==
    /\ snd = "answered"
    /\ snd' = "send"
    /\ skipped' = (skipped \/ sendFlg = 1)
    /\ UNCHANGED <<call, verdict, testerVars, wait, reply, sharedVars, origin, lost>>

\* gets() times out; com() closes the port, so a later answer is dropped.
SndTimeout ==
    /\ snd \in {"com", "answered"} /\ wait = 0
    /\ lost' = TRUE
    /\ snd' = "check"
    /\ UNCHANGED <<call, verdict, testerVars, wait, reply, sharedVars, origin, skipped>>

SndCheck ==
    /\ snd = "check"
    /\ snd' = IF sendFlg = 1 THEN "done" ELSE "send"
    /\ UNCHANGED <<call, verdict, testerVars, wait, reply, sharedVars, origin, lost, skipped>>

-----------------------------------------------------------------------------
(* The main thread, and time.                                              *)

FuncThread ==
    /\ verdict # "none"
    /\ call < MaxCalls
    /\ call' = call + 1
    /\ verdict' = "none"
    /\ tester' = "start"
    /\ snd' = "setup" /\ wait' = 1
    /\ lost' = FALSE /\ skipped' = FALSE
    /\ UNCHANGED <<wake, carrier, reply, sharedVars, origin>>

\* Both threads are joined: @result =~ /9/ decides.
Judge ==
    /\ verdict = "none"
    /\ tester = "done" /\ snd = "done"
    /\ verdict' = IF result = "9" THEN "PASS" ELSE "FAIL"
    /\ UNCHANGED <<call, testerVars, sndVars, sharedVars, origin, lost, skipped>>

Sleeping == tester \in {"on", "flagged"}
Waiting  == snd \in {"setup", "com", "answered"}

Less(n) == IF n = 0 THEN 0 ELSE n - 1

\* Time does not pass over a thread that is ready to run.
Tick ==
    /\ verdict = "none"
    /\ \/ tester \in {"prepare", "done"}
       \/ Sleeping /\ wake > 0
    /\ \/ snd \in {"setup", "done"}
       \/ Waiting /\ wait > 0
    /\ wake' = IF Sleeping THEN Less(wake) ELSE wake
    /\ wait' = IF Waiting THEN Less(wait) ELSE wait
    /\ UNCHANGED <<call, verdict, tester, carrier, snd, reply, sharedVars, origin, lost, skipped>>

Init ==
    /\ call = 0 /\ verdict = "PASS"
    /\ tester = "done" /\ wake = 0 /\ carrier = FALSE
    /\ snd = "done" /\ wait = 0 /\ reply = NoOrigin
    /\ sendFlg = 0 /\ result = "nil"
    /\ origin = NoOrigin /\ lost = FALSE /\ skipped = FALSE

TesterThread == TesterStart \/ TesterOn \/ TesterFlag \/ TesterOff
SndThread    == SndSetup \/ SndSend \/ SndAnswer \/ SndRescue \/ SndTimeout \/ SndCheck
Next         == TesterThread \/ SndThread \/ Board \/ FuncThread \/ Judge \/ Tick

Spec == Init /\ [][Next]_vars

-----------------------------------------------------------------------------
(* Properties.                                                             *)

\* Every variable has its type, and the timers stay within their waits.
TypeOK ==
    /\ call \in 0..MaxCalls
    /\ verdict \in {"none", "PASS", "FAIL"}
    /\ tester \in {"start", "prepare", "on", "flagged", "done"}
    /\ wake \in 0..Sleep
    /\ carrier \in BOOLEAN
    /\ snd \in {"setup", "send", "com", "answered", "check", "done"}
    /\ wait \in 0..Timeout
    /\ reply \in [call : 0..MaxCalls, busy : BOOLEAN]
    /\ sendFlg \in {0, 1}
    /\ result \in Texts
    /\ origin \in [call : 0..MaxCalls, busy : BOOLEAN]
    /\ lost \in BOOLEAN
    /\ skipped \in BOOLEAN

\* The answer that decides is the one to the last command, and it was sensed
\* under the carrier: the sender outlives no flag of an earlier call, the first
\* sleep outlasts a command begun before the carrier and the second one the last
\* command. So a board that senses fails only if that one answer was lost or
\* damaged, or an undecodable one made snd() miss the flag.
FailMeansLoss == verdict = "FAIL" => lost \/ skipped

\* The sender is gone before the carrier goes off, so that no frame of this
\* test is sent into the next and nobody uses the port while the next test
\* opens it, unless an undecodable answer made it miss the flag: that is the
\* one way to outlive the tester.
SenderStopsFirst == tester = "done" => snd = "done" \/ skipped

\* "Judgement: PASS" is logged under the frequency of this call: the board was
\* found to sense the carrier there.
PassMeansSensed == verdict = "PASS" /\ call > 0 => origin = [call |-> call, busy |-> TRUE]
=============================================================================
