----------------------------- MODULE Anonymizer -----------------------------
(* What leaves for the language model (anonymization/anonymizer.py): the   *)
(* identifiers of an alert, and those an analyst's note mentions, go out   *)
(* as tokens, and the answer's tokens come back as identifiers.  The maps  *)
(* are those of the process, shared by its triage threads and its tenants; *)
(* every mapping is stored for the tenant that made it, and read back once *)
(* per tenant and process.  A text is the set of identifiers it mentions.  *)
EXTENDS Integers, Sequences, FiniteSets

CONSTANTS
  Triages, Tenants, Values,
  Emails,       \* values that a pattern recognises in any text
  Notes,
  Alerts,       \* agent, user; identity, text and command of the raw data
  Nobody,       \* what is not an identity: "SYSTEM", "-", ...
  Configured,   \* anonymization.hash_salt is set
  Earlier,      \* mappings that processes before this one may have stored
  MaxCalls, MaxFaults, MaxStarts

VARIABLES
  starts,
  toToken, toOriginal,   \* _to_token, _to_original
  hydrated,              \* _hydrated_tenants
  rows,                  \* anon_mappings of each tenant
  call,                  \* what each triage thread is at
  raced,                 \* history: values whose token two threads made at once
  calls, faults

anonVars == <<starts, toToken, toOriginal, hydrated, rows, call, raced, calls, faults>>
maps == <<toToken, toOriginal, hydrated, raced>>
bounds == <<calls, faults>>

None == [of |-> Nobody, as |-> "none", salt |-> 0]
Token == [of : Values, as : {"HOST", "USER", "EMAIL"}, salt : -1..MaxStarts]
Away == [at |-> "away"]
Text == [agent : Values \cup {Nobody}, user : Values \cup {Nobody},
         identity : Values \cup {Nobody}, text : SUBSET Values, command : SUBSET Values]

\* What the proofs ask of an instance.
TextsAssumption ==
  /\ Nobody \notin Values /\ Emails \subseteq Values /\ Notes \subseteq SUBSET Values
  /\ Alerts \subseteq Text /\ Earlier \subseteq Token
  /\ MaxStarts \in Nat
\* Without a configured salt every process makes up its own.
Salt == IF Configured THEN 0 ELSE starts

Init ==
  /\ starts = 0
  /\ toToken = [v \in Values |-> None] /\ toOriginal = {} /\ hydrated = {}
  /\ rows \in [Tenants -> SUBSET Earlier]
  /\ call = [c \in Triages |-> Away] /\ raced = {}
  /\ calls = 0 /\ faults = 0

At(c, at) == call[c].at = at
\* A pass needs tokens for the values of todo, under these prefixes.
Pass(c, at, todo) == call' = [call EXCEPT ![c].at = at, ![c].todo = todo]
Named(prefix, S) == {<<prefix, v>> : v \in S \ {Nobody}}
-----------------------------------------------------------------------------
(* _tokenize: a look at the map without the lock, the new token under it,  *)
(* and its row; a row that cannot be stored is let go.                     *)

Uses(c, token) ==
  call' = [call EXCEPT ![c].used = @ \cup {token}, ![c].made = None,
             ![c].todo = @ \ {n \in @ : n[2] = token.of}]

Look(c) ==
  /\ call[c].at \in {"fields", "data", "note"} /\ call[c].made = None
  /\ \E n \in call[c].todo :
       IF toToken[n[2]] # None THEN Uses(c, toToken[n[2]])
       ELSE call' = [call EXCEPT ![c].made =
                       [of |-> n[2], as |-> n[1], salt |-> Salt]]
  /\ UNCHANGED <<starts, maps, rows, bounds>>

\* Broken variant of Originals: a value's former token is forgotten.
LatestOnly(token) == {k \in toOriginal : k.of # token.of} \cup {token}
Originals(token) == toOriginal \cup {token}

Put(c) ==
  LET token == call[c].made IN
  /\ ~At(c, "away") /\ token # None
  /\ toToken' = [toToken EXCEPT ![token.of] = token]
  /\ toOriginal' = Originals(token)
  /\ raced' = IF toToken[token.of] \in {None, token} THEN raced
              ELSE raced \cup {token.of}
  /\ \/ rows' = [rows EXCEPT ![call[c].tenant] = @ \cup {token}] /\ UNCHANGED faults
     \/ faults < MaxFaults /\ faults' = faults + 1 /\ UNCHANGED rows
  /\ Uses(c, token)
  /\ UNCHANGED <<starts, hydrated, calls>>
-----------------------------------------------------------------------------
(* anonymize_alert_context.                                                *)

Begin(c) ==
  /\ At(c, "away") /\ calls < MaxCalls /\ calls' = calls + 1
  /\ \E t \in Tenants, a \in Alerts, note \in Notes :
       call' = [call EXCEPT ![c] =
         [at |-> "fields", tenant |-> t, alert |-> a, note |-> note,
          todo |-> Named("HOST", {a.agent}) \cup Named("USER", {a.user}),
          made |-> None, used |-> {}, raw |-> {}, read |-> {}, blind |-> FALSE]]
  /\ UNCHANGED <<starts, maps, rows, faults>>

Done(c, at) == At(c, at) /\ call[c].todo = {} /\ call[c].made = None

\* Broken variant of Scrubbed: a command line is left as it is.
TextOnly(a, known) == [a EXCEPT !.text = @ \ known]
\* _scrub_dict takes what the fields named out of all raw data; ...
Scrubbed(a, known) == [a EXCEPT !.text = @ \ known, !.command = @ \ known]

\* ... then _anonymize_node gives tokens to the identity fields of the data and
\* to patterns in its texts, but not to what a detection needs: command lines.
Data(c) ==
  LET a == call[c].alert
      known == {a.agent, a.user}
      rest == Scrubbed(a, known)
  IN /\ Done(c, "fields")
     /\ call' = [call EXCEPT ![c].at = "data",
          ![c].todo = Named("HOST", {a.identity} \ known)
                        \cup Named("EMAIL", rest.text \cap Emails),
          ![c].raw = (rest.text \ Emails) \cup rest.command]
     /\ UNCHANGED <<starts, maps, rows, bounds>>
-----------------------------------------------------------------------------
(* anonymize_free_text, for the note.                                      *)

\* Broken variant of MarkedAtRead: the tenant counts as read at once.
AtOnce(t) == hydrated \cup {t}
MarkedAtRead(t) == hydrated

\* hydrate_token_map, once per tenant; what cannot be read is not missed.
Hydrate(c) ==
  LET t == call[c].tenant IN
  /\ Done(c, "data")
  /\ IF t \in hydrated
     THEN /\ call' = [call EXCEPT ![c].at = "note", ![c].read = rows[t],
                           ![c].todo = Named("EMAIL", call[c].note \cap Emails)]
          /\ UNCHANGED <<hydrated, faults>>
     ELSE \/ /\ call' = [call EXCEPT ![c].at = "load", ![c].read = rows[t]]
             /\ hydrated' = MarkedAtRead(t) /\ UNCHANGED faults
          \/ /\ faults < MaxFaults /\ faults' = faults + 1
             /\ call' = [call EXCEPT ![c].at = "note", ![c].blind = TRUE,
                           ![c].todo = Named("EMAIL", call[c].note \cap Emails)]
             /\ UNCHANGED hydrated
  /\ UNCHANGED <<starts, toToken, toOriginal, raced, rows, calls>>

\* Broken variant of Loadable: a stored token replaces the live one.
LoadAll(read) == read
\* A live entry wins; of two stored tokens of a value the one read first.
Loadable(read) == {k \in read : k \notin toOriginal /\ toToken[k.of] = None}

Load(c) ==
  /\ At(c, "load")
  /\ LET new == Loadable(call[c].read)
         values == {k.of : k \in new} IN
     \E pick \in [values -> new] :
       /\ \A v \in values : pick[v].of = v
       /\ toToken' = [v \in Values |-> IF v \in values THEN pick[v] ELSE toToken[v]]
       /\ toOriginal' = toOriginal \cup {pick[v] : v \in values}
  /\ hydrated' = hydrated \cup {call[c].tenant}
  /\ Pass(c, "note", Named("EMAIL", call[c].note \cap Emails))
  /\ UNCHANGED <<starts, raced, rows, bounds>>

\* anonymize_fp_text, from a snapshot of the map; and the prompt goes out.
Send(c) ==
  LET known == {v \in call[c].note : toToken[v] # None} IN
  /\ Done(c, "note")
  /\ call' = [call EXCEPT ![c].at = "sent",
                ![c].used = @ \cup {toToken[v] : v \in known},
                ![c].note = @ \ (known \cup {k.of : k \in call[c].used})]
  /\ UNCHANGED <<starts, maps, rows, bounds>>

\* deanonymize_dict, of an answer with any of the tokens.
Answered(c) ==
  /\ At(c, "sent") /\ call' = [call EXCEPT ![c] = Away]
  /\ UNCHANGED <<starts, maps, rows, bounds>>

Restart ==
  /\ starts < MaxStarts /\ starts' = starts + 1
  /\ toToken' = [v \in Values |-> None] /\ toOriginal' = {} /\ hydrated' = {}
  /\ call' = [c \in Triages |-> Away] /\ raced' = {}
  /\ UNCHANGED <<rows, bounds>>

CallStep(c) ==
  \/ Begin(c) \/ Look(c) \/ Put(c) \/ Data(c)
  \/ Hydrate(c) \/ Load(c) \/ Send(c) \/ Answered(c)
Next == Restart \/ \E c \in Triages : CallStep(c)
-----------------------------------------------------------------------------
TypeOK ==
  /\ toToken \in [Values -> Token \cup {None}] /\ toOriginal \subseteq Token
  /\ hydrated \subseteq Tenants /\ \A t \in Tenants : rows[t] \subseteq Token

\* What an alert names as its agent or user leaves nowhere in its data, command
\* lines included (anonymizer.py:310, 360).
NamedLeavesNowhere ==
  \A c \in Triages : ~At(c, "away") /\ ~At(c, "fields") =>
    {call[c].alert.agent, call[c].alert.user} \cap call[c].raw = {}

\* An identifier that is stored for the tenant leaves in no analyst's note,
\* whatever other threads do and although the process started again since,
\* unless the rows could not be read (anonymizer.py:470).
StoredLeavesInNoNote ==
  \A c \in Triages : At(c, "sent") /\ ~call[c].blind =>
    call[c].note \cap {k.of : k \in call[c].read} = {}

\* Every token that went out can be restored when the answer comes
\* (anonymizer.py:621).
AnswersResolve ==
  \A c \in Triages : At(c, "sent") => call[c].used \subseteq toOriginal

\* A prompt calls an identifier by one name, unless two threads named it at the
\* same time: rows that are read never replace a live token (anonymizer.py:525).
OneName ==
  \A c \in Triages : At(c, "sent") =>
    \A k, l \in call[c].used : k.of = l.of => k = l \/ k.of \in raced
=============================================================================
