---------------------------- MODULE MCBaudFlash ----------------------------
(***************************************************************************)
(* BaudFlash on the rates of the source. Programming a Flash word can only *)
(* clear bits, so the word left is the bitwise conjunction of the two; the *)
(* words are those of the rates, the erased word, and what programming one *)
(* over another leaves.                                                    *)
(***************************************************************************)
EXTENDS BaudFlash, FiniteSetsExt

MCBaudList == {9600, 19200, 28800, 38400, 57600, 115200}

\* What the host asks for: a rate of the list other than the default, so that
\* each change is visible, and one that is not in the list.
MCTargets == {9600, 14400}

Bit(w, i) == (w \div 2^i) % 2

Conjunction(v, w) ==
    LET low[i \in 0..16] == IF i = 0 THEN 0
                            ELSE low[i - 1] + 2^(i - 1) * Bit(v, i - 1) * Bit(w, i - 1)
    IN  low[16]

\* Erased, the upper and lower words of the rates, and their conjunctions
\* (BaudAssumption checks that nothing is missing).
MCWord == {0, 1, 256, 512, 1024, 2048, 4096, 8192, 8320, 8448, 9600, 12288, 14400, 16384,
           16640, 16896, 19200, 24576, 28800, 32768, 33280, 38400, 49152, 49664, 57600, 65535}

MCConjunction == [v \in MCWord, w \in MCWord |-> Conjunction(v, w)]

MCProgramWord(old, new) == MCConjunction[old, new]

\* Conjunctions of the words of any of the rates, and of none.
Conjunctions(Part(_)) ==
    [A \in SUBSET (MCTargets \cup MCBaudList) |->
        LET words == {Part(b) : b \in A}
        IN  {FoldSet(MCProgramWord, Erased, W) : W \in SUBSET words}]

ASSUME SourceWordsApart == WordsKeepApart(Conjunctions(Upper), Conjunctions(Lower))
=============================================================================
