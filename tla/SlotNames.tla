----------------------------- MODULE SlotNames ------------------------------
(***************************************************************************)
(* How a credential leaf is named in the bundle: the escaped path that is  *)
(* written, the older spellings that are still read, and which stored      *)
(* names belong to which array entry.  A string is a sequence of one-      *)
(* character strings; a path component is a literal or an array index.     *)
(***************************************************************************)
EXTENDS Integers, Sequences

Lit(s) == [lit |-> s]
Idx(n) == [idx |-> n]
IsIdx(c) == "idx" \in DOMAIN c

Digit(n) == <<"0", "1", "2", "3">>[n + 1]
Bracketed(n) == <<"[", Digit(n), "]">>

Starts(s, p) == Len(p) <= Len(s) /\ SubSeq(s, 1, Len(p)) = p
Without(s, p) == SubSeq(s, Len(p) + 1, Len(s))

RECURSIVE Concat(_, _)
Concat(ss, sep) ==
    IF ss = <<>> THEN <<>>
    ELSE IF Len(ss) = 1 THEN ss[1] ELSE ss[1] \o sep \o Concat(Tail(ss), sep)

EscapeChar(ch) ==
    CASE ch = "~" -> <<"~", "0">>
      [] ch = "/" -> <<"~", "1">>
      [] ch = "[" -> <<"~", "2">>
      [] OTHER -> <<ch>>

Escape(s) == Concat([i \in DOMAIN s |-> EscapeChar(s[i])], <<>>)

Encode(c) == IF IsIdx(c) THEN Bracketed(c.idx) ELSE Escape(c.lit)

Elided(c) == IsIdx(c) /\ c.idx = 0

Verbatim(path) == Concat([i \in DOMAIN path |-> Encode(path[i])], <<"/">>)

\* The name that is written.
Canonical(path) == Verbatim(SelectSeq(path, LAMBDA c: ~Elided(c)))

-----------------------------------------------------------------------------
(* The dotted spelling of an older release. *)

Has(s, chars) == \E i \in DOMAIN s: s[i] \in chars

PlainIdentity(s) == ~Has(s, {"/", "~"})
PlainKey(s) == PlainIdentity(s) /\ ~Has(s, {".", "[", "]"})

DottedPart(c, keepZero) ==
    IF ~IsIdx(c) THEN <<".">> \o c.lit
    ELSE IF c.idx = 0 /\ ~keepZero THEN <<>> ELSE Bracketed(c.idx)

IsPlain(path) ==
    /\ PlainIdentity(path[1].lit) /\ PlainIdentity(path[2].lit) /\ PlainKey(path[3].lit)
    /\ \A i \in 4..Len(path): IsIdx(path[i]) \/ PlainKey(path[i].lit)

DottedText(path, keepZero) ==
    path[1].lit \o <<"/">> \o path[2].lit \o <<"/">> \o path[3].lit
    \o Concat([i \in 1..Len(path) - 3 |-> DottedPart(path[i + 3], keepZero)], <<>>)

Dotted(path) ==
    IF Len(path) > 3 /\ IsPlain(path)
    THEN {DottedText(path, FALSE), DottedText(path, TRUE)} ELSE {}

\* Every name a lookup of this Consumer leaf reads.
Candidates(path) == {Canonical(path), Verbatim(path)} \cup Dotted(path)

-----------------------------------------------------------------------------
(* Which entry of an array a stored name belongs to: what the retirement    *)
(* scan sees.  NoEntry: the name is not one of the array's.                 *)

NoEntry == 0 - 1

\* The first index "[N]" a text starts with, or what else it means.
IndexAt(s, otherwise) ==
    IF Len(s) >= 3 /\ s[1] = "[" /\ s[3] = "]" /\ s[2] \in {Digit(n) : n \in 0..3}
    THEN CHOOSE n \in 0..3: Digit(n) = s[2] ELSE otherwise

SlashEntry(key, prefix) ==
    IF Starts(key, prefix \o <<"/">>) THEN IndexAt(Without(key, prefix \o <<"/">>), 0)
    ELSE NoEntry

DottedEntry(key, prefix) ==
    LET rest == Without(key, prefix) IN
    IF ~Starts(key, prefix) \/ rest = <<>> THEN NoEntry
    ELSE IF rest[1] = "." THEN (IF Len(rest) > 1 THEN 0 ELSE NoEntry)
    ELSE LET n == IndexAt(rest, NoEntry) IN
         IF n # NoEntry /\ (Len(rest) = 3 \/ rest[4] \in {".", "["}) THEN n ELSE NoEntry

DottedPrefixes(path) ==
    IF Len(path) = 3
    THEN IF IsPlain(path) THEN {DottedText(path, FALSE)} ELSE {}
    ELSE Dotted(path)

EntryOf(key, path) ==
    LET found == {SlashEntry(key, Canonical(path)), SlashEntry(key, Verbatim(path))}
                 \cup {DottedEntry(key, p) : p \in DottedPrefixes(path)}
    IN  IF found = {NoEntry} THEN NoEntry ELSE CHOOSE n \in found: n # NoEntry

\* Any stored name of a credential type, however it is spelled.
UnderType(key, path) ==
    /\ Starts(key, Canonical(path))
    /\ LET rest == Without(key, Canonical(path)) IN
         \/ rest = <<>>
         \/ rest[1] = "/"
         \/ DottedEntry(key, Canonical(path)) # NoEntry
=============================================================================
