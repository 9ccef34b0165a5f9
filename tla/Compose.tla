------------------------------ MODULE Compose ------------------------------
(***************************************************************************)
(* How one file of a claim is composed from its stores.  For one reference *)
(* after the other the store resource is read, its server is asked and the *)
(* answer is parsed; the answers are merged or the first one is taken, and *)
(* the result is converted to the format of the file.  Resources and       *)
(* servers may say anything at any time.  An Option of the code is a       *)
(* sequence of at most one value.                                          *)
(***************************************************************************)
EXTENDS Trees

CONSTANTS
  Params,      \* the query parameters that a reference may set
  Providers,   \* what a store resource may say
  Replies,     \* what a server may reply: a status and a text
  VaultText,   \* the text that every vault store answers
  Contents,    \* the objects that the parsers make of texts
  Entries(_, _), \* the keys, each with its text, that a leaf has in a file of pairs
  Extensions,  \* of the name of the file
  MaxFrom,     \* bound: references of the file
  Down,        \* no configuration
  Panics,      \* a parser panics
  NoReply,     \* no resource, URL or connection, or nothing in five seconds
  None         \* nothing yet

VaultReply == [code |-> "success", text |-> VaultText]
Formats == {"json", "json5", "env", "toml", "yaml", "properties"}
PairFormats == {"env", "properties"}

ASSUME BoundsAssumption == MaxFrom \in Nat
ASSUME ContentsAssumption ==
  /\ \A c \in Contents : IsTree(c)
  /\ Down \notin Contents /\ Panics \notin Contents \cup {Down}

\* Every parser makes an object of a text that it takes, but for the two of
\* key-value pairs, which some keys make panic, and the one of YAML, which a
\* key that is no string does.
ASSUME TextsAssumption ==
  \A r \in Replies \cup {VaultReply} :
    /\ r.code \in {"success", "other", "error"}
    /\ DOMAIN r.text \subseteq Formats
    /\ \A f \in DOMAIN r.text :
         \/ r.text[f] \in Contents
         \/ r.text[f] = Panics /\ f \in {"env", "yaml", "properties"}
ASSUME NoneAssumption ==
  /\ None \notin Replies \cup {VaultReply, NoReply} \cup Providers
  /\ NoReply \notin Replies \cup {VaultReply}

VARIABLES
  claimRef,  \* the list of references and the strategy
  extension, \* of the name of the file
  provider,  \* the store resource of the reference at hand
  query,     \* the query that was sent to its server
  reply,     \* what came back
  got,       \* the answers of the references so far, in order
  merged,    \* merged_config, an Option
  file,      \* what is inserted under the name of the file, if anything
  status     \* how compose_file returned

exchange == <<provider, query, reply>>
vars == <<claimRef, extension, exchange, got, merged, file, status>>

TypeOK ==
  /\ claimRef \in [from : Seq(Params), strategy : {"Merge", "Fallback"}]
  /\ extension \in Extensions
  /\ provider \in Providers \cup {None}
  /\ reply \in Replies \cup {VaultReply, NoReply, None}
  /\ got \in Seq(Contents \cup {Down})
  /\ Len(got) <= Len(claimRef.from)
  /\ merged # <<>> => merged = <<merged[1]>> /\ IsTree(merged[1])
  /\ status \in {"running", "ok", "failed", "panicked"}
  /\ status # "ok" => file = <<>>

Init ==
  /\ claimRef \in [from : UNION {[1 .. n -> Params] : n \in 0 .. MaxFrom},
                   strategy : {"Merge", "Fallback"}]
  /\ extension \in Extensions
  /\ provider = None /\ query = None /\ reply = None
  /\ got = <<>>
  /\ merged = <<>>
  /\ file = <<>>
  /\ status = "running"

-----------------------------------------------------------------------------
(* Converting *)

\* to_file_type_from_filename
FileType ==
  CASE extension \in {"json", "json5", "toml", "yaml", "properties", "env"} -> extension
    [] extension = "yml" -> "yaml"
    [] OTHER -> "unknown"

\* convert_to_format: TOML has no null, no list with one and no integer beyond 63
\* bits, which the leaf "null" stands for; every other format takes every object.
Convertible(j, f) == f = "toml" => \A l \in Leaves(j) : l[2] # "null"
Converted(j, f) == [syntax |-> IF f = "json5" THEN "json" ELSE f, content |-> j]

\* json_to_key_value_pairs: a list has entries for what is in it, and leaves may
\* meet at one key, as names are joined and those of .env are in capitals.  Then
\* only one is kept; which one, the order of the names decides, and any may be it.
EntriesOf(leaves, f) == UNION {Entries(l, f) : l \in leaves}
Flattened(j, f) ==
  LET e == EntriesOf(Leaves(j), f)
      keys == {entry[1] : entry \in e}
  IN {pairs \in [keys -> {entry[2] : entry \in e}] : \A k \in keys : <<k, pairs[k]>> \in e}
Conversions(j, f) ==
  IF f \in PairFormats THEN {[syntax |-> f, content |-> pairs] : pairs \in Flattened(j, f)}
  ELSE {Converted(j, f)}

-----------------------------------------------------------------------------
(* The parsers of text_to_json *)

\* A text is what each parser that takes it makes of it; the first one counts.
\* (A mutated model tries properties before YAML.)
PropertiesFirst == <<"json", "json5", "env", "toml", "properties", "yaml">>
ParserOrder == <<"json", "json5", "env", "toml", "yaml", "properties">>
Parsed(text) ==
  LET takers == {i \in DOMAIN ParserOrder : ParserOrder[i] \in DOMAIN text}
  IN IF takers = {} THEN Down
     ELSE text[ParserOrder[CHOOSE i \in takers : \A j \in takers : i <= j]]

-----------------------------------------------------------------------------
(* process_store_ref *)

Position == Len(got) + 1
Asking == status = "running" /\ Position <= Len(claimRef.from)
AllAsked == status = "running" /\ Position > Len(claimRef.from)

Finish(s, f) == status' = s /\ file' = f
Panic == Finish("panicked", <<>>) /\ UNCHANGED <<got, merged>>

\* get_config_store or get_cluster_config_store; any failure is the same.
StoreUnread == reply' = NoReply /\ UNCHANGED provider
ReadStore ==
  /\ Asking /\ provider = None /\ reply = None
  /\ StoreUnread \/ (provider' \in Providers /\ UNCHANGED reply)
  /\ UNCHANGED <<claimRef, extension, query, got, merged, file, status>>

\* The parameters of the reference override those of the store.
MergedParams(own, stores) ==
  [p \in DOMAIN own \cup DOMAIN stores |->
     IF p \in DOMAIN own THEN own[p] ELSE stores[p]]

AskVault == reply' = VaultReply /\ UNCHANGED query

\* A header of the store that HTTP does not allow panics.
AskHttp ==
  \/ /\ provider.headers = "valid"
     /\ query' = MergedParams(claimRef.from[Position], provider.params)
     /\ UNCHANGED <<reply, got, merged, file, status>>
  \/ /\ provider.headers # "valid"
     /\ Panic /\ UNCHANGED <<query, reply>>

Send ==
  /\ Asking /\ provider # None /\ query = None /\ reply = None
  /\ \/ provider.type = "vault" /\ AskVault /\ UNCHANGED <<got, merged, file, status>>
     \/ provider.type = "http" /\ AskHttp
  /\ UNCHANGED <<claimRef, extension, provider>>

Receive ==
  /\ Asking /\ query # None /\ reply = None
  /\ reply' \in Replies \cup {NoReply}
  /\ UNCHANGED <<claimRef, extension, provider, query, got, merged, file, status>>

\* Only client and server errors count as such; any other status is taken.
\* (A mutated model takes every answer.)
Everything(r) == r # NoReply
Usable(r) == r # NoReply /\ r.code # "error"
Answer == IF Usable(reply) THEN Parsed(reply.text) ELSE Down
Answered == Asking /\ reply # None
NextReference ==
  /\ got' = Append(got, Answer)
  /\ provider' = None /\ query' = None /\ reply' = None

-----------------------------------------------------------------------------
(* The two strategies *)

\* Merge: the first reference without a configuration fails the file.
\* (A mutated model skips it, or asks on after the first answer of a fallback.)
SkipDown == UNCHANGED <<status, file>>
FailFile == Finish("failed", <<>>)
AskForMerge ==
  /\ Answered /\ claimRef.strategy = "Merge"
  /\ \/ Answer = Panics /\ Panic /\ UNCHANGED exchange
     \/ Answer = Down /\ FailFile /\ NextReference /\ UNCHANGED merged
     \/ /\ Answer \notin {Down, Panics}
        /\ merged' = <<IF merged = <<>> THEN Answer ELSE Merged(merged[1], Answer)>>
        /\ NextReference
        /\ UNCHANGED <<status, file>>
  /\ UNCHANGED <<claimRef, extension>>

\* The first reference's format is always JSON, as every answer is converted.
EndMerge ==
  /\ AllAsked /\ claimRef.strategy = "Merge"
  /\ LET f == IF FileType = "unknown" THEN "json" ELSE FileType IN
     \/ merged = <<>> /\ Finish("ok", <<>>)
     \/ merged # <<>> /\ Convertible(merged[1], f)
          /\ \E c \in Conversions(merged[1], f) : Finish("ok", <<c>>)
     \/ merged # <<>> /\ ~Convertible(merged[1], f) /\ Finish("failed", <<>>)
  /\ UNCHANGED <<claimRef, extension, exchange, got, merged>>

\* Fallback: the first configuration is taken, as JSON whatever the name says.
KeepAsking(j) == status' = status /\ file' = <<Converted(j, "json")>>
TakeFirst(j) == Finish("ok", <<Converted(j, "json")>>)
AskForFallback ==
  /\ Answered /\ claimRef.strategy = "Fallback"
  /\ \/ Answer = Panics /\ Panic /\ UNCHANGED exchange
     \/ Answer = Down /\ NextReference /\ UNCHANGED <<merged, status, file>>
     \/ Answer \notin {Down, Panics} /\ NextReference /\ TakeFirst(Answer)
          /\ UNCHANGED merged
  /\ UNCHANGED <<claimRef, extension>>

EndFallback ==
  /\ AllAsked /\ claimRef.strategy = "Fallback"
  /\ Finish("failed", <<>>)
  /\ UNCHANGED <<claimRef, extension, exchange, got, merged>>

Next ==
  \/ ReadStore \/ Send \/ Receive
  \/ AskForMerge \/ EndMerge \/ AskForFallback \/ EndFallback

Spec == Init /\ [][Next]_vars

-----------------------------------------------------------------------------
(* Properties *)

Written == status = "ok" /\ file # <<>>
Content == file[1].content

\* A leaf of the i-th answer is in the merged file unless a later answer has
\* anything at its path, or a leaf above it.  A file of pairs has a key for every
\* such leaf and no other key, and what it has there is of one of these leaves.
Survives(p, i) ==
  \A n \in (i + 1) .. Len(got) : p \notin DOMAIN got[n] /\ ~CutOff(p, got[n])
Surviving == UNION {{l \in Leaves(got[i]) : Survives(l[1], i)} : i \in 1 .. Len(got)}
Latest ==
  IF file[1].syntax \in PairFormats
  THEN LET e == EntriesOf(Surviving, file[1].syntax) IN
         /\ DOMAIN Content = {entry[1] : entry \in e}
         /\ \A k \in DOMAIN Content : <<k, Content[k]>> \in e
  ELSE Leaves(Content) = Surviving
MergeTakesLatest == Written /\ claimRef.strategy = "Merge" => Latest

\* A merged file has a part of every reference: no answer is left out.
MergeIsComplete ==
  Written /\ claimRef.strategy = "Merge" =>
    Len(got) = Len(claimRef.from) /\ \A i \in 1 .. Len(got) : got[i] # Down

\* Fallback returns the answer of the first reference that has one, and asks
\* no further.
FallbackTakesFirst ==
  claimRef.strategy = "Fallback" =>
    /\ \A i \in 1 .. Len(got) - 1 : got[i] = Down
    /\ Written => Content = got[Len(got)] /\ got[Len(got)] # Down
    /\ status = "failed" => Len(got) = Len(claimRef.from)

\* The text of an error answer never reaches a file, even if it is JSON.
ErrorTextsKeptOut ==
  [][(reply \notin {None, NoReply} /\ reply.code = "error")
       => (merged' = merged /\ file' = <<>>)]_vars

\* Composing ends the process only for a store with a malformed header, or for
\* a text that one of three parsers panics at; none of them is given a text that
\* a more definite syntax, or YAML before mere pairs, can make an object of.
MoreDefinite(f) ==
  CASE f = "env" -> {"json", "json5"}
    [] f = "yaml" -> {"json", "json5", "env", "toml"}
    [] f = "properties" -> Formats \ {"properties"}
PanicHasCause ==
  status = "panicked" =>
    \/ reply = None /\ provider.headers # "valid"
    \/ reply # None /\ \E f \in {"env", "yaml", "properties"} :
         /\ f \in DOMAIN reply.text /\ reply.text[f] = Panics
         /\ MoreDefinite(f) \cap DOMAIN reply.text = {}

\* The inductive invariant: what is asked belongs to a reference, and while the
\* file is composed a merge has used every answer and a fallback has had none.
AskedOfStore ==
  /\ query # None => provider # None
  /\ AllAsked => reply = None
MergedSoFar ==
  status = "running" /\ claimRef.strategy = "Merge" =>
    /\ merged = <<>> <=> got = <<>>
    /\ \A i \in 1 .. Len(got) : got[i] # Down
    /\ got # <<>> => Leaves(merged[1]) = Surviving
NoneSoFar ==
  status = "running" /\ claimRef.strategy = "Fallback" =>
    \A i \in 1 .. Len(got) : got[i] = Down
Inv == AskedOfStore /\ MergedSoFar /\ NoneSoFar
=============================================================================
