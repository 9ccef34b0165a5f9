----------------------------- MODULE MCCompose -----------------------------
(* Small instances of Compose for TLC. *)
EXTENDS Compose, TLC

\* Every way in which two answers may meet at a key: leaf and leaf, leaf and
\* object, object and object, on one level or two, a null and a list.
EmptyObject == <<>>
At(p, v) == p :> v
SmallContents ==
  {EmptyObject, At(<<"a">>, "1"), At(<<"b">>, "null"),
   At(<<"a">>, Object) @@ At(<<"a", "a">>, "1"),
   At(<<"a">>, Object) @@ At(<<"a", "b">>, "2"),
   At(<<"a">>, Object),
   At(<<"A">>, "2"),
   At(<<"a">>, "list") @@ At(<<"b">>, Object) @@ At(<<"b", "a">>, "1")}

\* The names "a" and "A" are one in capitals, and the list has two values.
Capitals == [a |-> "A", A |-> "A", b |-> "B"]
Joined(p, f) == IF f = "env" THEN [n \in DOMAIN p |-> Capitals[p[n]]] ELSE p
ListEntries(l, f) ==
  LET k == Joined(l[1], f) IN
    IF l[2] = "list" THEN {<<Append(k, "0"), "1">>, <<Append(k, "1"), "2">>}
    ELSE {<<k, l[2]>>}

\* "Vault config" is a key and a value to the properties parser.
VaultConfig == "properties" :> At(<<"a">>, "1")

\* A text each that two parsers read differently, that a later parser would
\* panic at, that the first one to take it panics at, and that none takes.
OddTexts ==
  {"env" :> At(<<"b">>, "null") @@ "properties" :> At(<<"a">>, "1"),
   "yaml" :> At(<<"a">>, "1") @@ "properties" :> Panics,
   "env" :> Panics @@ "properties" :> At(<<"a">>, "1"),
   "yaml" :> Panics, "properties" :> Panics, <<>>}

SomeReplies ==
  [code : {"success"}, text : {"json" :> c : c \in SmallContents} \cup OddTexts]
    \cup [code : {"other", "error"}, text : {"json" :> At(<<"a">>, "1")}]

NoParams == <<>>
SomeParams == {NoParams, "p" :> "claim"}
SomeProviders ==
  {[type |-> "vault"],
   [type |-> "http", params |-> NoParams, headers |-> "valid"],
   [type |-> "http", params |-> "p" :> "store" @@ "q" :> "store", headers |-> "valid"],
   [type |-> "http", params |-> NoParams, headers |-> "malformed"]}
=============================================================================
