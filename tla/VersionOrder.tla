----------------------------- MODULE VersionOrder -----------------------------
(***************************************************************************)
(* The version comparators of domain/version_strategy.go.  A matcher asks  *)
(* whether a component's version lies in a rule's window, so each Compare  *)
(* is to be an order and Contains an interval of it.                       *)
(*                                                                         *)
(* Debian, generic and RPM versions are sequences of characters, because   *)
(* their comparators walk over characters; semver, Maven and calver        *)
(* versions are sequences of parsed parts.  A result is -1, 0 or 1.  What  *)
(* cannot be parsed is an error in the code and not a version here.        *)
(*                                                                         *)
(* The states are the lists of up to three versions of one scheme that     *)
(* have been compared with each other.                                     *)
(***************************************************************************)
EXTENDS Integers, SequencesExt

CONSTANTS VersionsOf        \* VersionsOf[scheme]: the versions compared

VARIABLES scheme, asked

versionVars == <<scheme, asked>>

Sign(n) == IF n < 0 THEN -1 ELSE IF n > 0 THEN 1 ELSE 0

\* The first of the parts that differ decides.
FirstOf(results) ==
    LET differ == {i \in DOMAIN results : results[i] # 0}
    IN IF differ = {} THEN 0 ELSE results[Min(differ)]

MaxLen(a, b) == IF Len(a) > Len(b) THEN Len(a) ELSE Len(b)

\* Two sequences of numbers, from the left; a prefix is less.
Lexical(a, b) ==
    FirstOf([i \in 1..MaxLen(a, b) |->
               IF i > Len(a) THEN -1 ELSE IF i > Len(b) THEN 1 ELSE Sign(a[i] - b[i])])

-------------------------------------------------------------------------------
(* Characters; the end of a string is a character "".  What a loop has not *)
(* read of a string is a suffix of it.                                     *)

Digit == [c \in {"0", "1", "2"} |-> CASE c = "0" -> 48 [] c = "1" -> 49 [] c = "2" -> 50]
Letter == [c \in {"a", "b"} |-> IF c = "a" THEN 97 ELSE 98]
Mark == [c \in {".", "-", "~"} |-> CASE c = "." -> 46 [] c = "-" -> 45 [] c = "~" -> 126]

Digits == DOMAIN Digit
AlphaNum == Digits \union DOMAIN Letter
Character == AlphaNum \union DOMAIN Mark

Byte(c) == IF c \in Digits THEN Digit[c] ELSE IF c \in DOMAIN Letter THEN Letter[c] ELSE Mark[c]
Bytes(s) == [i \in DOMAIN s |-> Byte(s[i])]

At(s) == IF s = <<>> THEN "" ELSE s[1]
Rest(s) == IF s = <<>> THEN s ELSE Tail(s)

\* The longest prefix of s that consists of the characters C, and what follows.
Run(s, C) == SubSeq(s, 1, CHOOSE n \in 0..Len(s) :
                    /\ \A i \in 1..n : s[i] \in C
                    /\ n < Len(s) => s[n + 1] \notin C)
After(s, C) == SubSeq(s, Len(Run(s, C)) + 1, Len(s))

\* Two runs of digits: the longer one is greater, else the bytes decide.
Longer(s, t) == FirstOf(<<Sign(Len(s) - Len(t)), Lexical(Bytes(s), Bytes(t))>>)

\* By value: without the leading zeros.
ByValue(s, t) == Longer(After(s, {"0"}), After(t, {"0"}))

-------------------------------------------------------------------------------
(* Debian and generic: dpkgOrderCompare. *)

DpkgOrder(c) ==
    CASE c = "~" -> -1
      [] c = "" -> 0
      [] c \in DOMAIN Letter -> Letter[c]
      [] c \in Digits \union {".", "-"} -> 256 + Byte(c)

\* As long as one side is at a character that is no digit, characters decide;
\* else two runs of digits, by value.
ByCharacter(s, t) == {At(s), At(t)} \ (Digits \union {""}) # {}
DpkgTurn(s, t) == IF ByCharacter(s, t) THEN Sign(DpkgOrder(At(s)) - DpkgOrder(At(t)))
                  ELSE ByValue(Run(s, Digits), Run(t, Digits))
DpkgRest(s, t) == IF ByCharacter(s, t) THEN Rest(s) ELSE After(s, Digits)

\* What is unread of both after n turns.
DpkgUnread(s, t) ==
    LET unread[n \in Nat] == IF n = 0 THEN <<s, t>>
                             ELSE LET both == unread[n - 1]
                                  IN <<DpkgRest(both[1], both[2]), DpkgRest(both[2], both[1])>>
    IN unread

DpkgCompare(s, t) ==
    FirstOf([n \in 1..MaxLen(s, t) |->
               LET both == DpkgUnread(s, t)[n - 1] IN DpkgTurn(both[1], both[2])])

\* [upstream]-[revision] splits at the last hyphen; epochs are numbers, left out.
Hyphens(s) == {i \in DOMAIN s : s[i] = "-"}
Upstream(s) == IF Hyphens(s) = {} THEN s ELSE SubSeq(s, 1, Max(Hyphens(s)) - 1)
Revision(s) == IF Hyphens(s) = {} THEN <<>> ELSE SubSeq(s, Max(Hyphens(s)) + 1, Len(s))

CompareDebian(s, t) == FirstOf(<<DpkgCompare(Upstream(s), Upstream(t)),
                                 DpkgCompare(Revision(s), Revision(t))>>)

CompareGeneric(s, t) == DpkgCompare(s, t)

\* deb-version(7): a non-digit part, then a number, and again; the end of a
\* part sorts after a tilde and before the rest.
DebVersion(s, t) ==
    LET text == Character \ Digits
        weights(u) == LET part == Append(Run(u, text), "") IN [i \in DOMAIN part |-> DpkgOrder(part[i])]
        number(u) == Run(After(u, text), Digits)
        more[n \in Nat] == [u \in {s, t} |->
                               IF n = 0 THEN u ELSE After(After(more[n - 1][u], text), Digits)]
    IN FirstOf([n \in 1..MaxLen(s, t) |->
                  LET u == more[n - 1][s]
                      v == more[n - 1][t]
                  IN FirstOf(<<Lexical(weights(u), weights(v)), ByValue(number(u), number(v))>>)])

-------------------------------------------------------------------------------
(* RPM: rpmvercmpCompare. *)

\* A numeric segment ends before a non-digit, any other before a digit.
Class(s) == IF At(s) \in Digits THEN Digits ELSE Character \ Digits
Segment(s) == Run(s, Class(s))

\* Mutant of Segments: a number of more digits is not the greater one.
SegmentsByByte(s, t) ==
    CASE At(s) \in Digits /\ At(t) \notin Digits -> 1
      [] At(s) \notin Digits /\ At(t) \in Digits -> -1
      [] OTHER -> LET n == IF Len(s) <= Len(t) THEN Len(s) ELSE Len(t)
                  IN Lexical(Bytes(SubSeq(s, 1, n)), Bytes(SubSeq(t, 1, n)))

\* Leading zeros count.
Segments(s, t) ==
    CASE At(s) \in Digits /\ At(t) \in Digits -> Longer(s, t)
      [] At(s) \in Digits /\ At(t) \notin Digits -> 1
      [] At(s) \notin Digits /\ At(t) \in Digits -> -1
      [] OTHER -> Lexical(Bytes(s), Bytes(t))

TildeOrder(s, t) == IF At(s) = At(t) THEN 0 ELSE IF At(s) = "~" THEN -1 ELSE 1

\* Without the separators before the next segment.
Stripped(s) == After(s, Character \ AlphaNum)

RpmTurn(s, t) ==
    LET u == Stripped(s)
        v == Stripped(t)
    IN IF "~" \in {At(s), At(t)} THEN TildeOrder(s, t)
       ELSE IF u = <<>> \/ v = <<>> THEN Sign(Len(u) - Len(v))
       ELSE Segments(Segment(u), Segment(v))
RpmRest(s) == IF At(s) = "~" THEN Rest(s)
              ELSE LET u == Stripped(s) IN After(u, Class(u))

RpmUnread(s) ==
    LET unread[n \in Nat] == IF n = 0 THEN s ELSE RpmRest(unread[n - 1])
    IN unread

\* rpmvercmpCompare, by which version and release are compared in turn.
CompareRPM(s, t) ==
    IF s = t THEN 0
    ELSE FirstOf([n \in 1..MaxLen(s, t) |-> RpmTurn(RpmUnread(s)[n - 1], RpmUnread(t)[n - 1])])

-------------------------------------------------------------------------------
(* Maven, semver and calver: parts.  An item is a kind and a value of it. *)

CompareItem(x, y) == FirstOf(<<Sign(x[1] - y[1]), Sign(x[2] - y[2])>>)

\* A token's place among alpha < beta < ... < release < numbers < sp < words.
Qualifiers == <<"alpha", "beta", "milestone", "rc", "snapshot">>
Release == {"0", "ga", "final", "release"}
MavenTokens == ToSet(Qualifiers) \union Release \union AlphaNum \union {"sp"}
MavenItem(token) ==
    CASE token \in ToSet(Qualifiers) -> <<0, CHOOSE i \in DOMAIN Qualifiers : Qualifiers[i] = token>>
      [] token \in Release -> <<1, 0>>
      [] token \in Digits \ Release -> <<2, Digit[token]>>
      [] token = "sp" -> <<3, 0>>
      [] token \in DOMAIN Letter -> <<4, Letter[token]>>

\* A missing token is a release.
MavenPad == <<1, 0>>

CompareMaven(s, t) ==
    LET item(u, i) == IF i \in DOMAIN u THEN MavenItem(u[i]) ELSE MavenPad
    IN FirstOf([i \in 1..MaxLen(s, t) |->
                  CompareItem(item(s, i), item(t, i))])

\* Missing parts of the core are 0.
Part(core, i) == IF i \in DOMAIN core THEN core[i] ELSE 0

\* Identifiers of a pre-release: numbers, which are less, and words.
Identifier(c) == IF c \in Digits THEN <<0, Digit[c]>> ELSE <<1, Letter[c]>>

\* A release is newer than its pre-releases, a longer list than its prefix.
ComparePre(p, q) ==
    IF p = <<>> \/ q = <<>> THEN Sign(Len(q) - Len(p))
    ELSE FirstOf([i \in 1..MaxLen(p, q) |->
                    IF i > Len(p) THEN -1 ELSE IF i > Len(q) THEN 1
                    ELSE CompareItem(Identifier(p[i]), Identifier(q[i]))])

CompareSemver(v, w) ==
    FirstOf([i \in 1..4 |-> IF i < 4 THEN Sign(Part(v.core, i) - Part(w.core, i))
                                     ELSE ComparePre(v.pre, w.pre)])

CompareCalver(v, w) == FirstOf([i \in 1..3 |-> Sign(Part(v, i) - Part(w, i))])

-------------------------------------------------------------------------------
(* Strategies *)

\* The parsed versions of a scheme.
ParsedVersions(s) ==
    CASE s \in {"debian", "generic", "rpm"} -> Seq(Character)
      [] s = "maven" -> Seq(MavenTokens)
      [] s = "semver" -> [core : Seq(Nat), pre : Seq(AlphaNum)]
      [] s = "calver" -> Seq(Nat)

ASSUME VersionsAssumption ==
    /\ DOMAIN VersionsOf \subseteq {"debian", "generic", "rpm", "maven", "semver", "calver"}
    /\ \A s \in DOMAIN VersionsOf : VersionsOf[s] \subseteq ParsedVersions(s)

Compare(v, w) ==
    CASE scheme = "debian" -> CompareDebian(v, w)
      [] scheme = "generic" -> CompareGeneric(v, w)
      [] scheme = "rpm" -> CompareRPM(v, w)
      [] scheme = "maven" -> CompareMaven(v, w)
      [] scheme = "semver" -> CompareSemver(v, w)
      [] scheme = "calver" -> CompareCalver(v, w)

\* Mutant of InRange: the end of a window always belongs to it.
InRangeEnd(v, window) ==
    /\ window.from # <<>> => Compare(v, window.from[1]) >= (IF window.fromIncluding THEN 0 ELSE 1)
    /\ window.to # <<>> => Compare(v, window.to[1]) <= 0

\* A window has at most one bound on each side.
InRange(v, window) ==
    /\ window.from # <<>> => Compare(v, window.from[1]) >= (IF window.fromIncluding THEN 0 ELSE 1)
    /\ window.to # <<>> => Compare(v, window.to[1]) <= (IF window.toIncluding THEN 0 ELSE -1)

-------------------------------------------------------------------------------

VersionInit == scheme \in DOMAIN VersionsOf /\ asked = <<>>

Ask(v) == /\ Len(asked) < 3
          /\ asked' = Append(asked, v) /\ UNCHANGED scheme

VersionNext == \E v \in VersionsOf[scheme] : Ask(v)

VersionSpec == VersionInit /\ [][VersionNext]_versionVars

-------------------------------------------------------------------------------
(* Properties *)

Pairwise(P(_, _)) == Len(asked) = 2 => P(asked[1], asked[2])

\* The dpkg comparison is not transitive (DebianIsTransitive below): what the
\* windows of these schemes mean is not claimed.
Unordered == {"debian", "generic"}

TransitiveTriple ==
    Len(asked) = 3 =>
        LET v == asked[1]
            w == asked[2]
            u == asked[3]
        IN (Compare(v, w) <= 0 /\ Compare(w, u) <= 0) =>
              /\ Compare(v, u) <= 0
              /\ Compare(v, u) = 0 => Compare(v, w) = 0 /\ Compare(w, u) = 0

\* Compare orders the versions of a scheme: the two directions of a comparison
\* agree, whichever version its loops run out of first, and it is transitive,
\* equality included (version_strategy.go: "an ordering for two versions of its
\* scheme", deterministic).
TotalOrder ==
    /\ Pairwise(LAMBDA v, w : Compare(v, w) = -Compare(w, v))
    /\ scheme \notin Unordered => TransitiveTriple

\* The same of the dpkg comparison, which weighs a digit against a letter as a
\* character but against the end of the string as a number.
DebianIsTransitive == scheme \in Unordered => TransitiveTriple

\* The window of a rule and the windows before and after it hold each version
\* once, so an advisory that ends where the next begins leaves no gap and no
\* version affected twice (inVersionRange).
WindowsPartition ==
    scheme \notin Unordered /\ Len(asked) = 3 /\ Compare(asked[1], asked[2]) < 0 =>
        \A in1, in2 \in BOOLEAN :
            LET window(from, to, inFrom, inTo) ==
                    [from |-> from, to |-> to, fromIncluding |-> inFrom, toIncluding |-> inTo]
                first == <<asked[1]>>
                last == <<asked[2]>>
            IN Cardinality({r \in {window(<<>>, first, FALSE, ~in1), window(first, last, in1, in2),
                                   window(last, <<>>, ~in2, FALSE)} : InRange(asked[3], r)}) = 1

\* version_strategy.go: "CompareDebian orders two versions with the dpkg
\* algorithm of deb-version(7)".
DebianFollowsDpkg ==
    scheme = "debian" =>
        Pairwise(LAMBDA v, w : Hyphens(v) \union Hyphens(w) = {} => Compare(v, w) = DebVersion(v, w))
===============================================================================
