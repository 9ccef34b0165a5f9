------------------------------ MODULE KeySplit ------------------------------
(***************************************************************************)
(* How a key of a .env or .properties file is split into its parts, one    *)
(* character per step, and how the flattener joins parts to a key.  The    *)
(* separator of .env keys is also their escape character; .properties keys *)
(* have no escape character.                                               *)
(***************************************************************************)
EXTENDS Integers, SequencesExt

CONSTANTS
  Letters,   \* ordinary characters
  Sep,       \* the separator, '_' or '.'
  NoEscape,  \* there is no escape character
  MaxLen,    \* bound: characters of a key
  MaxName    \* bound: characters of a name that is written, and names of a key

ASSUME SepAssumption == Sep \notin Letters /\ NoEscape \notin Letters \cup {Sep}
ASSUME LenAssumption == MaxLen \in Nat /\ MaxName \in Nat

VARIABLES
  names,    \* the names that the flattener made the key of, or none
  key,      \* the key
  escape,   \* the escape character, or NoEscape
  at,       \* characters read so far
  part,     \* "current": the part being read
  escaped,  \* "escape_next": is the next character taken literally?
  parts     \* "result": the parts read so far

vars == <<names, key, escape, at, part, escaped, parts>>

Chars == Letters \cup {Sep}
Strings(n) == UNION {[1 .. i -> Chars] : i \in 0 .. n}

-----------------------------------------------------------------------------
(* flatten_json: the separator inside a name is doubled, names are joined *)

Repeat(e) == IF e = NoEscape THEN <<Sep>> ELSE <<Sep, Sep>>

\* A bug of the flattener; a mutated model puts it in.
WriteAsIs(p, e) == p

Written(p, e) == [i \in DOMAIN p |-> IF p[i] = Sep THEN Repeat(e) ELSE <<p[i]>>]
Write(p, e) == FlattenSeq(Written(p, e))

\* Every name but the first has a separator before it.
Divider == <<Sep>>
Below(ps, e) == [i \in DOMAIN ps |-> Divider \o Write(ps[i], e)]
Join(ps, e) == Tail(FlattenSeq(Below(ps, e)))

\* What a name must not be: empty, started by the separator, and without an
\* escape character not have the separator at all.
Names(e) == {p \in Strings(MaxName) \ {<<>>} :
               /\ p[1] # Sep
               /\ e = NoEscape => \A i \in DOMAIN p : p[i] # Sep}

-----------------------------------------------------------------------------
TypeOK ==
  /\ escape \in {Sep, NoEscape}
  /\ names \in Seq(Names(escape))
  /\ key \in Seq(Chars)
  /\ at \in 0 .. Len(key) + 1
  /\ part \in Seq(Chars) /\ Len(part) <= at
  /\ escaped \in BOOLEAN /\ (escaped => at < Len(key))
  /\ parts \in Seq(Seq(Chars)) /\ Len(parts) <= at

Init ==
  /\ escape \in {Sep, NoEscape}
  /\ \/ names = <<>> /\ key \in Strings(MaxLen)
     \/ /\ names \in UNION {[1 .. n -> Names(escape)] : n \in 1 .. MaxName}
        /\ key = Join(names, escape)
  /\ at = 0
  /\ part = <<>>
  /\ escaped = FALSE
  /\ parts = <<>>

-----------------------------------------------------------------------------
(* split_with_escape; without an escape character it is str::split *)

Reading == at < Len(key)
Char == key[at + 1]
SepFollows == at + 1 < Len(key) /\ key[at + 2] = Sep
Advance == at' = at + 1 /\ UNCHANGED <<names, key, escape>>

\* Bugs of the loop; a mutated model puts one in.
AnyEscape == Char = escape
KeepPart == UNCHANGED part

IsEscape == Char = escape /\ SepFollows

TakeLiterally ==
  /\ Reading /\ escaped
  /\ part' = Append(part, Char)
  /\ escaped' = FALSE
  /\ Advance /\ UNCHANGED parts

StartEscape ==
  /\ Reading /\ ~escaped /\ IsEscape
  /\ escaped' = TRUE
  /\ Advance /\ UNCHANGED <<part, parts>>

ClearPart == part' = <<>>
StartPart ==
  /\ Reading /\ ~escaped /\ ~IsEscape /\ Char = Sep
  /\ parts' = Append(parts, part)
  /\ ClearPart
  /\ Advance /\ UNCHANGED escaped

TakeChar ==
  /\ Reading /\ ~escaped /\ ~IsEscape /\ Char # Sep
  /\ part' = Append(part, Char)
  /\ Advance /\ UNCHANGED <<escaped, parts>>

LastPart ==
  /\ at = Len(key)
  /\ parts' = Append(parts, part)
  /\ Advance /\ UNCHANGED <<part, escaped>>

Next == TakeLiterally \/ StartEscape \/ StartPart \/ TakeChar \/ LastPart

Spec == Init /\ [][Next]_vars

-----------------------------------------------------------------------------
(* Properties *)

Done == at > Len(key)

\* No character is lost and no two keys have the same parts: the parts, with the
\* separators in them doubled and one separator between any two, are the key again.
PartsMakeKey == Done => Join(parts, escape) = key

\* The names that the flattener wrote are read back, as long as none starts
\* with the separator.
NamesReadBack == Done /\ names # <<>> => parts = names

\* Why both hold: what has been read is what has been taken out of it, joined
\* again, and of written names the first ones have been taken and the beginning
\* of the next one.
Taken(ps, p, e) == FlattenSeq(Below(Append(ps, p), e))
ReadIsTaken ==
  /\ ~Done => Divider \o SubSeq(key, 1, at) =
                Taken(parts, part, escape) \o IF escaped THEN Divider ELSE <<>>
  /\ Done => Divider \o key = FlattenSeq(Below(parts, escape))
  /\ escaped => escape = Sep /\ Reading /\ Char = Sep

NamesTaken ==
  names # <<>> =>
    /\ key = Join(names, escape)
    /\ parts = SubSeq(names, 1, Len(parts))
    /\ ~Done => \E n \in DOMAIN names :
         /\ n = Len(parts) + 1
         /\ Len(part) <= Len(names[n]) /\ part = SubSeq(names[n], 1, Len(part))
         /\ escaped => Len(part) < Len(names[n]) /\ names[n][Len(part) + 1] = Sep
    /\ Done => Len(parts) = Len(names)

Inv == TypeOK /\ ReadIsTaken /\ NamesTaken
=============================================================================
