----------------------------- MODULE TerminalText -----------------------------
(***************************************************************************)
(* internal/ansi on the reads of one reader: Session.readOutput applies    *)
(* Strip and Compact to what each read returned, whatever part of the      *)
(* output that is.                                                         *)
(*                                                                         *)
(* A character is its position in the output; text gives its class, named  *)
(* for what ansiRe (strip.go:7-13) takes it for behind an ESC:             *)
(*   "let"  a letter, and all from @ to ~ that is not one of the next three *)
(*   "csi"  [          "osc"  ]          "st"  \                           *)
(*   "dig"  a digit, and all from 0 to ?                                   *)
(*   "par"  (          "mrk"  the others from ! to /                       *)
(*   "esc"  ESC        "bel"  BEL        "ctl"  other controls and DEL     *)
(*   "sp"   space      "nl"   newline    "cr"   carriage return            *)
(* Tabs (blanks that end an escape sequence) and characters that are not   *)
(* ASCII (visible, part of no sequence but an OSC) are left out.           *)
(* Every pass of Strip and Compact only removes characters, so a result is *)
(* a sequence of positions; an operator that names what a pass keeps says  *)
(* all about the pass.                                                     *)
(*                                                                         *)
(* FAULT marks definitions that are wrong on purpose (see Session.tla).    *)
(***************************************************************************)
EXTENDS Integers, Sequences, SequencesExt, FiniteSets

CONSTANTS
    Alphabet,  \* classes of characters the process writes
    MaxText    \* bound: characters written

Finals == {"let", "csi", "osc", "st"}  \* @ to ~
Marks == {"par", "mrk"}                \* ! to /
Visible == Finals \cup Marks \cup {"dig"}
Control == {"esc", "bel", "ctl"}
Classes == Visible \cup Control \cup {"sp", "nl", "cr"}
ASSUME AlphabetAssumption == Alphabet \subseteq Classes

VARIABLES
    text,   \* position -> class: the output of the process
    reads,  \* the output up to here was read in these steps
    last,   \* what the last read returned
    shown   \* what all reads returned

vars == <<text, reads, last, shown>>

--------------------------------------------------------------------------------
(* The passes. s is a sequence of positions, the text of a read. *)

\* The subsequence of s at the indices in keep.
KeepAt(s, keep) ==
    LET kept[i \in 0..Len(s)] ==
            IF i = 0 THEN <<>>
            ELSE IF i \in keep THEN Append(kept[i - 1], s[i]) ELSE kept[i - 1]
    IN  kept[Len(s)]

Is(s, i, class) == i \in DOMAIN s /\ text[s[i]] = class
All(s, from, to, classes) == \A i \in from..to : text[s[i]] \in classes

\* The alternatives of ansiRe: the ESC s[from] starts a sequence that ends in s[to].
\* The third, a character set, is a case of the last.
CSI(s, from, to) ==
    /\ Is(s, from + 1, "csi") \/ Is(s, from + 1, "par")
    /\ text[s[to]] \in Finals
    /\ \E mid \in (from + 2)..to :
          /\ All(s, from + 2, mid - 1, {"dig"})
          /\ All(s, mid, to - 1, Marks \cup {"sp"})

EndsOSC(s, from, to) ==
    \/ to > from + 1 /\ Is(s, to, "bel")
    \/ to > from + 2 /\ Is(s, to - 1, "esc") /\ Is(s, to, "st")
OSC(s, from, to) ==
    /\ Is(s, from + 1, "osc") /\ EndsOSC(s, from, to)
    /\ \A m \in (from + 2)..(to - 1) : ~EndsOSC(s, from, m) /\ text[s[m]] # "nl"

TwoBytes(s, from, to) ==
    All(s, from + 1, to - 1, Marks \cup {"sp"}) /\ text[s[to]] \in Finals \cup {"dig"}

Sequence(s, from, to) ==
    Is(s, from, "esc") /\ (CSI(s, from, to) \/ OSC(s, from, to) \/ TwoBytes(s, from, to))

\* FAULT: the last alternative is tried first.
InTwoBytes(s, i) ==
    \E from \in 1..i, to \in i..Len(s) :
       /\ from < to /\ Sequence(s, from, to)
       /\ \A less \in (from + 1)..(to - 1) : ~Sequence(s, from, less)
\* s[i] belongs to an escape sequence.  What the alternatives match behind one ESC
\* are prefixes of what the first of them matches, and an ESC inside an OSC starts
\* nothing that ends behind it: so each sequence counts, whichever is found first.
InEscape(s, i) ==
    \E from \in 1..i, to \in i..Len(s) : from < to /\ Sequence(s, from, to)

Strip(s) == KeepAt(s, {i \in DOMAIN s : ~InEscape(s, i)})

NeedsCompact(s) ==
    \/ Is(s, 1, "nl")
    \/ \E i \in DOMAIN s :
          \/ text[s[i]] \in Control \cup {"cr"}
          \/ Is(s, i, "sp") /\ (i = Len(s) \/ Is(s, i + 1, "nl"))
          \/ Is(s, i, "nl") /\ Is(s, i + 1, "nl") /\ Is(s, i + 2, "nl")

DropControl(s) == KeepAt(s, {i \in DOMAIN s : text[s[i]] \notin Control})

\* FAULT: a line end of two characters is left as it is.
KeepCRLF(s) == s
NormalizeCRLF(s) == KeepAt(s, {i \in DOMAIN s : ~(Is(s, i, "cr") /\ Is(s, i + 1, "nl"))})

\* FAULT: the text is not split into lines first.
AfterLastCROfAll(s) == KeepAt(s, {i \in DOMAIN s : \A j \in i..Len(s) : ~Is(s, j, "cr")})
\* Of every line what follows its last carriage return.
AfterLastCR(s) ==
    KeepAt(s, {i \in DOMAIN s : \A j \in i..Len(s) :
        Is(s, j, "cr") => \E k \in i..j : Is(s, k, "nl")})

\* FAULT: the end of the text is not the end of a line.
TrimBeforeNewline(s) ==
    KeepAt(s, {i \in DOMAIN s : ~(Is(s, i, "sp") /\ \E to \in i..Len(s) :
        All(s, i, to, {"sp"}) /\ Is(s, to + 1, "nl"))})
\* Of every line what precedes its trailing blanks.
TrimLines(s) ==
    KeepAt(s, {i \in DOMAIN s : ~(Is(s, i, "sp") /\ \E to \in i..Len(s) :
        All(s, i, to, {"sp"}) /\ (to = Len(s) \/ Is(s, to + 1, "nl")))})

\* Three newlines and more become two.
FoldBlank(s) ==
    KeepAt(s, {i \in DOMAIN s : ~(i > 2 /\ All(s, i - 2, i, {"nl"}))})

TrimLeft(s) == KeepAt(s, {i \in DOMAIN s : ~All(s, 1, i, {"nl"})})

\* All newlines at the end go, but a single one stays.
TrimEnd(s) ==
    IF Is(s, Len(s), "nl") /\ Is(s, Len(s) - 1, "nl")
    THEN KeepAt(s, {i \in DOMAIN s : ~All(s, i, Len(s), {"nl"})})
    ELSE s

Compact(s) ==
    IF ~NeedsCompact(s) THEN s
    ELSE TrimEnd(TrimLeft(FoldBlank(TrimLines(
            AfterLastCR(NormalizeCRLF(DropControl(s)))))))

--------------------------------------------------------------------------------

Positions(from, to) == [i \in 1..(to - from) |-> from + i]
ReadUpTo == IF reads = <<>> THEN 0 ELSE Last(reads)

Init == text = <<>> /\ reads = <<>> /\ last = <<>> /\ shown = <<>>

\* The process writes a character.
Write(c) ==
    /\ Len(text) < MaxText
    /\ text' = Append(text, c)
    /\ UNCHANGED <<reads, last, shown>>

\* readOutput with strip_ansi, of all that was written since the last read.
Read ==
    /\ ReadUpTo < Len(text)
    /\ last' = Compact(Strip(Positions(ReadUpTo, Len(text))))
    /\ shown' = shown \o last'
    /\ reads' = Append(reads, Len(text))
    /\ UNCHANGED text

Next == Read \/ \E c \in Alphabet : Write(c)

Spec == Init /\ [][Next]_vars

--------------------------------------------------------------------------------
(* What a read must show, said without the passes. *)

\* The text of the last read.
Piece ==
    LET n == Len(reads) IN
    IF n = 0 THEN <<>>
    ELSE Positions(IF n = 1 THEN 0 ELSE reads[n - 1], reads[n])

\* The regexp engine: from left to right, the first alternative that matches, and
\* on behind its end.  scan[i] is the end of the last match that starts up to i.
MatchEnd(s, i) ==
    LET csi == {to \in (i + 1)..Len(s) : CSI(s, i, to)}
        osc == {to \in (i + 1)..Len(s) : OSC(s, i, to)}
        two == {to \in (i + 1)..Len(s) : TwoBytes(s, i, to)}
        found == IF csi # {} THEN csi ELSE IF osc # {} THEN osc ELSE two
    IN  IF Is(s, i, "esc") /\ found # {} THEN CHOOSE to \in found : TRUE ELSE 0
LeftmostFirst(s) ==
    LET scan[i \in 0..Len(s)] ==
            IF i = 0 THEN 0
            ELSE IF i > scan[i - 1] /\ MatchEnd(s, i) # 0 THEN MatchEnd(s, i)
            ELSE scan[i - 1]
    IN  KeepAt(s, {i \in DOMAIN s : i > scan[i]})

\* Strip removes what the engine matches, although an alternative that comes first
\* hides the later ones and a match hides those that start inside it (strip.go:7-18).
StripIsLeftmostFirst == Strip(Piece) = LeftmostFirst(Piece)

(* The screen: a return to the start of a line is followed by overwriting it. *)

Returns(s, i) == Is(s, i, "cr") /\ ~InEscape(s, i)
Printed(s, i) == text[s[i]] \in Visible \cup {"sp"} /\ ~InEscape(s, i)
SameLine(s, i, j) == \A k \in i..j : ~Is(s, k, "nl")

\* The column of s[i], counted from 0.
Column(s, i) ==
    Cardinality({k \in 1..(i - 1) :
        Printed(s, k) /\ SameLine(s, k, i) /\ \A j \in k..i : ~Returns(s, j)})

\* s[i] was printed, and a character that came later took its place.
Overwritten(s, i) ==
    /\ Printed(s, i)
    /\ \E j \in (i + 1)..Len(s) :
          Printed(s, j) /\ SameLine(s, i, j) /\ Column(s, i) = Column(s, j)

\* Behind s[i] nothing returns to the start of its line, but for ending it.
NotReturnedTo(s, i) ==
    \A j \in (i + 1)..Len(s) : Returns(s, j) =>
       \/ ~SameLine(s, i, j)
       \/ \E k \in (j + 1)..Len(s) :
             Is(s, k, "nl") /\ \A m \in (j + 1)..(k - 1) : text[s[m]] \in Control \/ InEscape(s, m)

VisibleOf(s) == KeepAt(s, {i \in DOMAIN s : text[s[i]] \in Visible})

\* How many newlines of s lie between positions p and q.
Newlines(s, p, q) == Cardinality({x \in ToSet(s) : p < x /\ x < q /\ text[x] = "nl"})

\* Nothing that a read returns is overwritten on the screen, or belongs to an escape
\* sequence that the read has whole; all that is visible in lines the read does not
\* return to is returned; and that in order, in lines as they were written, with one
\* blank line at most between two of them, also when the fast path returns the text
\* as it is (compact.go:14-97).
FinalContentIsShown ==
    LET seen == VisibleOf(last)
        full == {i \in DOMAIN Piece : text[Piece[i]] \in Visible /\ ~InEscape(Piece, i)}
    IN
    /\ \E keep \in SUBSET full :
          /\ seen = KeepAt(Piece, keep)
          /\ \A i \in full : NotReturnedTo(Piece, i) => i \in keep
    /\ \A i \in DOMAIN seen : ~Overwritten(Positions(0, ReadUpTo), seen[i])
    /\ \A i \in 1..(Len(seen) - 1) :
          LET written == Newlines(Piece, seen[i], seen[i + 1]) IN
          Newlines(last, seen[i], seen[i + 1]) = IF written > 2 THEN 2 ELSE written

\* A result has no noise left: a second Compact would change nothing
\* (compact.go:61-99).
CompactedIsClean == ~NeedsCompact(last)

\* Reads that end at line ends show together what a single read of all of it
\* would have shown.
WholeLinesCompose ==
    (\A i \in DOMAIN reads : text[reads[i]] = "nl")
        => VisibleOf(shown) = VisibleOf(Compact(Strip(Positions(0, ReadUpTo))))

(* What documents say, and the code does not do. *)

\* CHANGELOG.md:43: only the final visible content reaches the agent; so what stays
\* on the screen in a line that ended is shown, wherever the reads cut.
EndedLinesAreShown ==
    LET all == Positions(0, ReadUpTo) IN
    \A i \in DOMAIN all :
        /\ text[i] \in Visible /\ ~InEscape(all, i) /\ ~Overwritten(all, i)
        /\ \E j \in i..Len(all) : Is(all, j, "nl")
        => Contains(shown, all[i])

\* The same document: escape sequences are not content; so none is shown,
\* wherever the reads cut.
EscapesAreNotShown ==
    LET all == Positions(0, ReadUpTo) IN
    \A i \in DOMAIN all : InEscape(all, i) => ~Contains(shown, all[i])
================================================================================
