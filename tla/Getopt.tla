------------------------------- MODULE Getopt -------------------------------
(***************************************************************************)
(* _gnu_getopt_internal, as gnu_getopt_long calls it: one call returns the *)
(* next option of the command line.  Words that are no options are skipped *)
(* and, a segment at a time, exchanged with the options behind them, so    *)
(* that in the end they are all at the back of argv.                       *)
(*                                                                         *)
(* An element of argv is a word, "--", a cluster of short options or a     *)
(* long option; text is the element as typed.  The letters of a cluster    *)
(* are a sequence, of which an option that takes an argument takes the     *)
(* rest.  argv has no element 0 here (the program's name), so argc is one  *)
(* more than its length.                                                   *)
(***************************************************************************)
EXTENDS Integers, Sequences

CONSTANTS
    Letters,        \* the letters of the option string
    WithArg,        \* those of them that require an argument
    LongNames,      \* long name |-> letter
    Begins          \* pairs of what may be typed and a long name that begins so

ASSUME OptionsAssumption == WithArg \subseteq Letters
ASSUME LongNamesAssumption ==
    /\ \A n \in DOMAIN LongNames : LongNames[n] \in Letters /\ <<n, n>> \in Begins
    /\ \A b \in Begins : b[2] \in DOMAIN LongNames

Word(t) == [kind |-> "word", text |-> t]
Dashes == [kind |-> "dashes", text |-> "--"]
Short(t, letters) == [kind |-> "short", text |-> t, letters |-> letters]
Long(t, name) == [kind |-> "long", text |-> t, name |-> name, value |-> <<>>]
LongEq(t, name, value) == [kind |-> "long", text |-> t, name |-> name, value |-> <<value>>]

argc(g) == Len(g.argv) + 1

\* The scan before the first call.
_gnu_getopt_initialize(argv, ordering) ==
    [argv |-> argv, optind |-> 1, first_nonopt |-> 1, last_nonopt |-> 1,
     nextchar |-> <<>>, ordering |-> ordering]

-----------------------------------------------------------------------------
(* Permuting.                                                              *)

\* The place that i takes its element from when the len elements from a on change
\* places with those from b on.
Partner(i, a, b, len) ==
    IF i \in a .. a + len - 1 THEN b + i - a
    ELSE IF i \in b .. b + len - 1 THEN a + i - b ELSE i

Swapped(argv, a, b, len) == [i \in DOMAIN argv |-> argv[Partner(i, a, b, len)]]

\* The shorter of the segments [bottom, middle) and [middle, top) goes to its
\* place at the far end of the longer; what that leaves of the longer is two
\* segments again.  Where the element comes from that ends up at i:
Origin[i \in Nat, bottom \in Nat, middle \in Nat, top \in Nat] ==
    IF ~(top > middle /\ middle > bottom) THEN i
    ELSE IF top - middle > middle - bottom
         THEN LET len == middle - bottom
              IN  Partner(Origin[i, bottom, middle, top - len], bottom, top - len, len)
         ELSE LET len == top - middle
              IN  Partner(Origin[i, bottom + len, middle, top], bottom, middle, len)

SwapSegments(argv, bottom, middle, top) ==
    [i \in DOMAIN argv |-> argv[Origin[i, bottom, middle, top]]]

\* Mutant: the long segment is taken to be in its place after one swap.
exchangeOnce(g) ==
    LET short == IF g.optind - g.last_nonopt < g.last_nonopt - g.first_nonopt
                 THEN g.optind - g.last_nonopt ELSE g.last_nonopt - g.first_nonopt
    IN  [g EXCEPT !.argv = Swapped(@, g.first_nonopt, g.optind - short, short),
                  !.first_nonopt = @ + g.optind - g.last_nonopt,
                  !.last_nonopt = g.optind]

\* The words skipped so far and the options behind them change places.
exchange(g) ==
    [g EXCEPT !.argv = SwapSegments(@, g.first_nonopt, g.last_nonopt, g.optind),
              !.first_nonopt = @ + g.optind - g.last_nonopt,
              !.last_nonopt = g.optind]

NONOPTION_P(g, i) == g.argv[i].kind = "word"

\* The first element from optind on that is no word.
SkipWords(g) ==
    CHOOSE i \in g.optind .. argc(g) :
        /\ i = argc(g) \/ ~NONOPTION_P(g, i)
        /\ \A j \in g.optind .. i - 1 : NONOPTION_P(g, j)

\* A word skipped earlier, and options since.
Separated(g) == g.first_nonopt # g.last_nonopt /\ g.last_nonopt # g.optind

Permute(g) ==
    IF g.ordering # "PERMUTE" THEN g
    ELSE LET h == IF Separated(g) THEN exchange(g)
                  ELSE IF g.last_nonopt # g.optind THEN [g EXCEPT !.first_nonopt = g.optind]
                  ELSE g
             i == SkipWords(h)
         IN  [h EXCEPT !.optind = i, !.last_nonopt = i]

\* "--" goes in front of the words skipped; everything behind it is words.
EndOfOptions(g) ==
    IF g.optind = argc(g) \/ g.argv[g.optind].kind # "dashes" THEN g
    ELSE LET h == [g EXCEPT !.optind = @ + 1]
             k == IF Separated(h) THEN exchange(h)
                  ELSE IF h.first_nonopt = h.last_nonopt THEN [h EXCEPT !.first_nonopt = h.optind]
                  ELSE h
         IN  [k EXCEPT !.last_nonopt = argc(g), !.optind = argc(g)]

-----------------------------------------------------------------------------
(* Decoding.  A result is the state, what is returned and the argument, a  *)
(* sequence of at most one text; "end" stands for -1.                      *)

Result(g, option, arg) == [g |-> g, option |-> option, arg |-> arg]

\* An argument that is the next element, whatever it is.
NextElement(g, option) ==
    IF g.optind < argc(g)
    THEN Result([g EXCEPT !.optind = @ + 1], option, <<g.argv[g.optind].text>>)
    ELSE Result(g, "?", <<>>)

\* A long option by its name or by a beginning of only one name.
LongOption(g) ==
    LET e == g.argv[g.optind]
        found == {n \in DOMAIN LongNames : <<e.name, n>> \in Begins}
        name == IF e.name \in found THEN e.name ELSE CHOOSE n \in found : TRUE
        option == LongNames[name]
        h == [g EXCEPT !.nextchar = <<>>, !.optind = @ + 1]
    IN  IF found = {} \/ (e.name \notin found /\ \E m, n \in found : m # n)
        THEN Result(h, "?", <<>>)
        ELSE IF e.value # <<>>
             THEN IF option \in WithArg THEN Result(h, option, e.value) ELSE Result(h, "?", <<>>)
             ELSE IF option \in WithArg THEN NextElement(h, option) ELSE Result(h, option, <<>>)

\* The next letter of a cluster; an option with an argument ends it.
ShortOption(g) ==
    LET c == Head(g.nextchar)
        rest == Tail(g.nextchar)
        h == [g EXCEPT !.nextchar = rest, !.optind = IF rest = <<>> THEN @ + 1 ELSE @]
        done == [h EXCEPT !.nextchar = <<>>]
    IN  IF c \notin Letters THEN Result(h, "?", <<>>)
        ELSE IF c \notin WithArg THEN Result(h, c, <<>>)
        ELSE IF rest # <<>> THEN Result([done EXCEPT !.optind = @ + 1], c, rest)
        ELSE NextElement(done, c)

\* Mutant: with nothing left the words skipped are not backed over.
ScanNoBack(g) ==
    IF g.nextchar # <<>> THEN ShortOption(g)
    ELSE LET h == EndOfOptions(Permute(g))
         IN  IF h.optind = argc(h) \/ NONOPTION_P(h, h.optind) THEN Result(h, "end", <<>>)
             ELSE IF h.argv[h.optind].kind = "long" THEN LongOption(h)
             ELSE ShortOption([h EXCEPT !.nextchar = h.argv[h.optind].letters])

\* One call.
_gnu_getopt_internal(g) ==
    IF g.nextchar # <<>> THEN ShortOption(g)
    ELSE LET h == EndOfOptions(Permute(g))
         IN  IF h.optind = argc(h)
             THEN Result([h EXCEPT !.optind = IF h.first_nonopt # h.last_nonopt
                                              THEN h.first_nonopt ELSE @], "end", <<>>)
             ELSE IF NONOPTION_P(h, h.optind) THEN Result(h, "end", <<>>)
             ELSE IF h.argv[h.optind].kind = "long" THEN LongOption(h)
             ELSE ShortOption([h EXCEPT !.nextchar = h.argv[h.optind].letters])
=============================================================================
