------------------------ MODULE SlaAnnouncer_proofs ------------------------
(***************************************************************************)
(* The announcements of missed deadlines, proved for any number of         *)
(* incidents, other tenants, attempts and announcements in a pass.  The    *)
(* retry ceiling needs LedgerOutlivesRounds: with t tenants and f passes   *)
(* that fail, an entry must be allowed to age f * t + t - 1 passes.        *)
(***************************************************************************)
EXTENDS SlaAnnouncer, TLAPS

\* How old the entry of a breach can be when n passes could not read the incidents.
Aged(n) == n * (Others + 1)

-----------------------------------------------------------------------------
(* The inductive invariant.                                                *)

\* Between passes an entry is never older than Stale; a turn of another tenant
\* is counted down.
Phase ==
  /\ at # "announcing" => \A b \in Breaches : age[b] <= Stale
  /\ at = "others" => wait > 0
  /\ at # "announcing" => pending = {}

\* What a pass still has to announce is not told, if it could read the history.
PendingUntold ==
  ~blind => \A b \in pending : table[b] # "told"

\* A breach that was announced and stays missed has all its attempts in the
\* ledger, and its entry is young: every pass of its tenant touches it.
Counted(b) ==
  sent[b] > 0 =>
    /\ Missed(b) /\ table[b] # "told"
    /\ sent[b] <= tries[b]
    /\ at = "idle" => age[b] <= Aged(slips) + Others
    /\ at = "others" => age[b] <= Aged(slips) + (Others - wait)
    /\ at = "announcing" => b \in pending \/ age[b] <= Aged(slips)

SentShape == sent \in [Breaches -> Nat]

IInv ==
  /\ TypeOK /\ SentShape /\ Phase /\ PendingUntold
  /\ \A b \in Breaches : Counted(b)

-----------------------------------------------------------------------------
(* Ages.                                                                   *)

LEMMA AgedNat ==
  ASSUME AnnouncerAssumption, NEW n \in Nat
  PROVE  Aged(n) \in Nat /\ Aged(n + 1) = Aged(n) + Others + 1
<1>1. Others \in Nat
  BY DEF AnnouncerAssumption
<1>2. n * (Others + 1) \in Nat
  BY <1>1
<1>3. (n + 1) * (Others + 1) = n * (Others + 1) + Others + 1
  BY <1>1
<1>4. QED
  BY <1>2, <1>3 DEF Aged

LEMMA AgedFits ==
  ASSUME AnnouncerAssumption, LedgerOutlivesRounds, NEW n \in 0..MaxFaults
  PROVE  Aged(n) + Others <= Stale
<1>1. Others \in Nat /\ MaxFaults \in Nat /\ Stale \in Nat /\ n \in Nat /\ n <= MaxFaults
  BY DEF AnnouncerAssumption
<1>2. n * (Others + 1) <= MaxFaults * (Others + 1)
  <2>1. PICK d \in Nat : MaxFaults = n + d
    <3>1. MaxFaults - n \in Nat /\ MaxFaults = n + (MaxFaults - n)
      BY <1>1
    <3>2. QED
      BY <3>1
  <2>2. MaxFaults * (Others + 1) = n * (Others + 1) + d * (Others + 1)
    BY <1>1, <2>1
  <2>3. d * (Others + 1) \in Nat /\ n * (Others + 1) \in Nat
    BY <1>1
  <2>4. QED
    BY <2>2, <2>3
<1>3. n * (Others + 1) \in Nat /\ MaxFaults * (Others + 1) \in Nat
  BY <1>1
<1>4. QED
  BY <1>1, <1>2, <1>3 DEF Aged, LedgerOutlivesRounds

LEMMA InitInv == AnnouncerAssumption /\ Init => IInv
<1> SUFFICES ASSUME AnnouncerAssumption, Init  PROVE IInv
  OBVIOUS
<1> USE DEF Init
<1>1. TypeOK
  <2>1. /\ 0 \in 0..Others /\ 0 \in 0..Limit /\ 0 \in 0..(Stale + 1)
        /\ 0 \in 0..MaxFaults /\ 0 \in 0..MaxTier /\ 0 \in 0..MaxAttempts
    BY DEF AnnouncerAssumption
  <2>2. QED
    BY <2>1 DEF TypeOK
<1>2. SentShape /\ PendingUntold /\ \A b \in Breaches : Counted(b)
  BY DEF SentShape, PendingUntold, Counted
<1>3. Phase
  BY DEF Phase, AnnouncerAssumption
<1>4. QED
  BY <1>1, <1>2, <1>3 DEF IInv

-----------------------------------------------------------------------------
(* Time and analysts.                                                      *)

\* What is no longer missed is forgotten, the rest stays as it is.
LEMMA DeskInv ==
  ASSUME AnnouncerAssumption, IInv, DeskStep
  PROVE  IInv'
<1> USE DEF IInv
<1>1. /\ UNCHANGED <<table, tries, age, at, pending, budget, wait, blind, slips>>
      /\ Forget
  BY DEF DeskStep, DeadlinePasses, FirstResponse, Resolve, EscalateTier, passVars
<1>2. /\ open' \subseteq Incidents /\ answered' \subseteq Incidents
      /\ late' \subseteq Breaches
  BY DEF DeskStep, DeadlinePasses, FirstResponse, Resolve, EscalateTier, TypeOK
<1>3. tier' \in [Incidents -> 0..MaxTier]
  <2>1. ASSUME NEW i \in Incidents, EscalateTier(i)  PROVE tier[i] + 1 \in 0..MaxTier
    <3>1. tier[i] \in 0..MaxTier /\ tier[i] < MaxTier /\ MaxTier \in Nat
      BY <2>1 DEF EscalateTier, TypeOK, AnnouncerAssumption
    <3>2. QED
      BY <3>1
  <2>2. QED
    BY <2>1 DEF DeskStep, DeadlinePasses, FirstResponse, Resolve, EscalateTier, TypeOK
<1>4. TypeOK'
  BY <1>1, <1>2, <1>3 DEF TypeOK
<1>5. \A b \in Breaches : sent'[b] = IF Missed(b)' THEN sent[b] ELSE 0
  BY <1>1 DEF Forget
<1>6. SentShape'
  BY <1>1 DEF Forget, SentShape
<1>7. Phase' /\ PendingUntold'
  BY <1>1 DEF Phase, PendingUntold
<1>8. ASSUME NEW b \in Breaches  PROVE Counted(b)'
  <2>1. CASE ~(Missed(b)')
    BY <1>5, <2>1 DEF Counted
  <2>2. CASE Missed(b)'
    <3>1. sent'[b] = sent[b]
      BY <1>5, <2>2
    <3>2. QED
      BY <1>1, <2>2, <3>1 DEF Counted
  <2>3. QED
    BY <2>1, <2>2
<1>9. QED
  BY <1>4, <1>6, <1>7, <1>8

-----------------------------------------------------------------------------
(* A pass.                                                                 *)

\* A pass begins: a breach that stays missed is to be announced, unless the
\* incidents could not be read, and then one more pass has failed.
LEMMA BeginPassInv ==
  ASSUME AnnouncerAssumption, IInv,
         NEW incidents \in BOOLEAN, NEW history \in BOOLEAN, NEW inserts \in BOOLEAN,
         Possible(incidents /\ history /\ inserts),
         BeginPass(incidents, history, inserts)
  PROVE  IInv'
<1> USE DEF IInv
<1> DEFINE missed == {b \in Breaches : incidents /\ Missed(b)}
<1>1. /\ at = "idle" /\ at' = "announcing" /\ blind' = ~history
      /\ budget' = Limit /\ pending' = missed \ Delivered(history)
      /\ table' = [b \in Breaches |-> IF inserts /\ b \in missed /\ table[b] = "none"
                                      THEN "untold" ELSE table[b]]
      /\ age' = [b \in Breaches |-> IF tries[b] = 0 THEN 0 ELSE age[b] + 1]
      /\ UNCHANGED <<open, tier, answered, late, tries, wait, sent>>
  BY DEF BeginPass
<1>2. /\ slips \in Nat /\ slips' \in 0..MaxFaults
      /\ incidents => slips' = slips \/ slips' = slips + 1
      /\ ~incidents => slips' = slips + 1
  <2>1. MaxFaults \in Nat /\ slips \in 0..MaxFaults
    BY DEF TypeOK, AnnouncerAssumption
  <2>2. \/ slips' = slips /\ incidents
        \/ slips' = slips + 1 /\ slips < MaxFaults
    BY DEF BeginPass, Works, Possible
  <2>3. slips + 1 \in 0..MaxFaults \/ ~(slips < MaxFaults)
    BY <2>1
  <2>4. QED
    BY <2>1, <2>2, <2>3
<1>3. \A b \in Breaches : age[b] \in Nat /\ age[b] <= Stale /\ age[b] + 1 \in 0..(Stale + 1)
  <2>1. \A b \in Breaches : age[b] \in 0..(Stale + 1) /\ age[b] <= Stale /\ Stale \in Nat
    BY <1>1 DEF TypeOK, Phase, AnnouncerAssumption
  <2>2. QED
    BY <2>1
<1>4. TypeOK'
  <2>1. age' \in [Breaches -> 0..(Stale + 1)]
    <3>1. 0 \in 0..(Stale + 1)
      BY DEF AnnouncerAssumption
    <3>2. QED
      BY <1>1, <1>3, <3>1
  <2>2. table' \in [Breaches -> {"none", "untold", "told"}]
    BY <1>1 DEF TypeOK
  <2>3. budget' \in 0..Limit
    BY <1>1 DEF AnnouncerAssumption
  <2>4. QED
    BY <1>1, <1>2, <2>1, <2>2, <2>3 DEF TypeOK
<1>5. SentShape' /\ Phase'
  BY <1>1 DEF SentShape, Phase
<1>6. \A b \in Breaches : table'[b] = "told" => table[b] = "told"
  BY <1>1
<1>7. PendingUntold'
  BY <1>1, <1>6 DEF PendingUntold, Delivered, TypeOK
<1>8. ASSUME NEW b \in Breaches  PROVE Counted(b)'
  <2> SUFFICES ASSUME sent[b] > 0  PROVE Counted(b)'
    BY <1>1 DEF Counted
  <2>1. /\ Missed(b) /\ table[b] # "told" /\ sent[b] <= tries[b]
        /\ age[b] <= Aged(slips) + Others
    BY <1>1 DEF Counted
  <2>2. Missed(b)' /\ table'[b] # "told" /\ sent'[b] <= tries'[b]
    BY <1>1, <1>6, <2>1 DEF Missed
  <2>3. CASE incidents
    <3>1. b \in missed \ Delivered(history)
      BY <2>1, <2>3 DEF Delivered
    <3>2. QED
      BY <1>1, <2>2, <3>1 DEF Counted
  <2>4. CASE ~incidents
    <3>1. slips' = slips + 1 /\ age'[b] \in {0, age[b] + 1}
      BY <1>1, <1>2, <2>4
    <3>2. /\ Aged(slips + 1) = Aged(slips) + Others + 1
          /\ Aged(slips) \in Nat /\ Others \in Nat
      BY <1>2, AgedNat DEF AnnouncerAssumption
    <3>3. 0 <= Aged(slips + 1) /\ age[b] + 1 <= Aged(slips + 1)
      BY <1>3, <2>1, <3>2
    <3>4. age'[b] <= Aged(slips')
      BY <3>1, <3>3
    <3>5. QED
      BY <1>1, <2>2, <3>4 DEF Counted
  <2>5. QED
    BY <2>3, <2>4
<1>9. QED
  BY <1>4, <1>5, <1>7, <1>8

\* An announcement counts itself, and makes the entry new.
LEMMA AnnounceInv ==
  ASSUME AnnouncerAssumption, IInv, NEW c \in Breaches,
         NEW delivered \in BOOLEAN, NEW marked \in BOOLEAN,
         Possible(marked), Announce(c, delivered, marked)
  PROVE  IInv'
<1> USE DEF IInv
<1>1. /\ at = "announcing" /\ budget > 0 /\ c \in pending /\ ~Abandoned(c)
      /\ tries' = [tries EXCEPT ![c] = @ + 1] /\ age' = [age EXCEPT ![c] = 0]
      /\ table' = IF delivered /\ marked /\ table[c] # "none"
                  THEN [table EXCEPT ![c] = "told"] ELSE table
      /\ sent' = [sent EXCEPT ![c] = IF table'[c] = "told" \/ ~Missed(c)
                                       THEN 0 ELSE @ + 1]
      /\ pending' = pending \ {c} /\ budget' = budget - 1
      /\ UNCHANGED <<open, tier, answered, late, at, wait, blind>>
  BY DEF Announce, LeastTried
<1>2. slips \in Nat /\ slips' \in 0..MaxFaults /\ Aged(slips') \in Nat
      /\ Aged(slips) <= Aged(slips')
  <2>1. MaxFaults \in Nat /\ slips \in 0..MaxFaults
    BY DEF TypeOK, AnnouncerAssumption
  <2>2. slips' = slips \/ (slips' = slips + 1 /\ slips < MaxFaults)
    BY DEF Announce, Works, Possible
  <2>3. slips + 1 \in 0..MaxFaults \/ ~(slips < MaxFaults)
    BY <2>1
  <2>4. /\ Aged(slips) \in Nat /\ Aged(slips + 1) \in Nat
        /\ Aged(slips) <= Aged(slips + 1)
    <3>1. slips \in Nat /\ slips + 1 \in Nat /\ Others \in Nat
      BY <2>1 DEF AnnouncerAssumption
    <3>2. /\ Aged(slips) \in Nat /\ Aged(slips + 1) \in Nat
          /\ Aged(slips + 1) = Aged(slips) + Others + 1
      BY <3>1, AgedNat
    <3>3. QED
      BY <3>1, <3>2
  <2>5. QED
    BY <2>1, <2>2, <2>3, <2>4
<1>3. /\ tries[c] \in Nat /\ tries[c] + 1 \in 0..MaxAttempts
      /\ budget - 1 \in 0..Limit /\ 0 \in 0..(Stale + 1)
  <2>1. /\ tries[c] \in 0..MaxAttempts /\ MaxAttempts \in Nat /\ ~(tries[c] >= MaxAttempts)
        /\ budget \in 0..Limit /\ Limit \in Nat /\ Stale \in Nat /\ budget > 0
    BY <1>1 DEF TypeOK, AnnouncerAssumption, Abandoned
  <2>2. QED
    BY <2>1
<1>4. TypeOK'
  <2>1. /\ tries' \in [Breaches -> 0..MaxAttempts] /\ age' \in [Breaches -> 0..(Stale + 1)]
        /\ budget' \in 0..Limit
    BY <1>1, <1>3 DEF TypeOK
  <2>2. table' \in [Breaches -> {"none", "untold", "told"}] /\ pending' \subseteq Breaches
    BY <1>1 DEF TypeOK
  <2>3. QED
    BY <1>1, <1>2, <2>1, <2>2 DEF TypeOK
<1>5. /\ \A b \in Breaches : b # c => /\ tries'[b] = tries[b] /\ age'[b] = age[b]
                                      /\ table'[b] = table[b] /\ sent'[b] = sent[b]
      /\ tries'[c] = tries[c] + 1 /\ age'[c] = 0
      /\ \/ sent'[c] = 0
         \/ table'[c] # "told" /\ Missed(c) /\ sent'[c] = sent[c] + 1
  <2>1. \A b \in Breaches : b # c => /\ tries'[b] = tries[b] /\ age'[b] = age[b]
                                      /\ sent'[b] = sent[b]
    BY <1>1 DEF TypeOK, SentShape
  <2>2. \A b \in Breaches : b # c => table'[b] = table[b]
    BY <1>1 DEF TypeOK
  <2>3. tries'[c] = tries[c] + 1 /\ age'[c] = 0
    BY <1>1 DEF TypeOK
  <2>4. sent'[c] = IF table'[c] = "told" \/ ~Missed(c) THEN 0 ELSE sent[c] + 1
    BY <1>1 DEF SentShape
  <2>5. QED
    BY <2>1, <2>2, <2>3, <2>4
<1>6. SentShape'
  BY <1>1 DEF SentShape
<1>7. Phase' /\ PendingUntold'
  BY <1>1, <1>5 DEF Phase, PendingUntold, TypeOK
<1>8. sent[c] \in Nat /\ sent[c] <= tries[c]
  <2>1. sent[c] \in Nat
    BY DEF SentShape
  <2>2. sent[c] > 0 => sent[c] <= tries[c]
    BY DEF Counted
  <2>3. QED
    BY <1>3, <2>1, <2>2
<1>9. sent[c] + 1 <= tries[c] + 1
  BY <1>3, <1>8
<1>10. ASSUME NEW b \in Breaches  PROVE Counted(b)'
  <2>1. Missed(b)' = Missed(b)
    BY <1>1 DEF Missed
  <2>2. CASE b = c /\ sent'[c] = 0
    BY <2>2 DEF Counted
  <2>3. CASE b = c /\ sent'[c] # 0
    <3>1. /\ sent'[c] = sent[c] + 1 /\ table'[c] # "told" /\ Missed(c)
      BY <1>5, <2>3
    <3>2. sent'[c] <= tries'[c]
      BY <1>5, <1>9, <3>1
    <3>3. age'[c] <= Aged(slips')
      BY <1>2, <1>5
    <3>4. QED
      BY <1>1, <2>1, <2>3, <3>1, <3>2, <3>3 DEF Counted
  <2>4. CASE b # c /\ sent[b] > 0
    <3>1. /\ Missed(b) /\ table[b] # "told" /\ sent[b] <= tries[b]
          /\ b \in pending \/ age[b] <= Aged(slips)
      BY <1>1, <2>4 DEF Counted
    <3>2. b \in pending' \/ age[b] <= Aged(slips')
      <4>1. age[b] \in Nat /\ Aged(slips) \in Nat
        BY <1>2, AgedNat DEF TypeOK
      <4>2. QED
        BY <1>1, <1>2, <2>4, <3>1, <4>1
    <3>3. QED
      BY <1>1, <1>5, <2>1, <2>4, <3>1, <3>2 DEF Counted
  <2>5. CASE b # c /\ ~(sent[b] > 0)
    BY <1>5, <2>5 DEF Counted
  <2>6. QED
    BY <2>2, <2>3, <2>4, <2>5
<1>11. QED
  BY <1>4, <1>6, <1>7, <1>10

\* The ledger is pruned: an entry that is not too old stays as it is.
LEMMA PruneKeeps ==
  ASSUME AnnouncerAssumption, NEW aged, Prune(aged), NEW b \in Breaches,
         aged[b] \in Nat, aged[b] <= Stale
  PROVE  tries'[b] = tries[b] /\ age'[b] = aged[b]
<1>1. ~Outdated(b, aged)
  BY DEF Outdated, AnnouncerAssumption
<1>2. QED
  BY <1>1 DEF Prune

LEMMA PruneTypes ==
  ASSUME AnnouncerAssumption, TypeOK, NEW aged, Prune(aged),
         \A b \in Breaches : aged[b] \in Nat
  PROVE  /\ tries' \in [Breaches -> 0..MaxAttempts] /\ age' \in [Breaches -> 0..(Stale + 1)]
         /\ \A b \in Breaches : age'[b] <= Stale
<1>1. 0 \in 0..MaxAttempts /\ Stale \in Nat
  BY DEF AnnouncerAssumption
<1>2. tries' \in [Breaches -> 0..MaxAttempts]
  BY <1>1 DEF Prune, TypeOK
<1>3. \A b \in Breaches : (IF Outdated(b, aged) THEN 0 ELSE aged[b]) \in 0..Stale
  BY <1>1 DEF Outdated
<1>4. \A n \in 0..Stale : n \in 0..(Stale + 1) /\ n <= Stale
  BY <1>1
<1>5. \A b \in Breaches : age'[b] \in 0..Stale
  BY <1>3 DEF Prune
<1>6. age' \in [Breaches -> 0..Stale]
  BY <1>3 DEF Prune
<1>7. QED
  BY <1>2, <1>4, <1>5, <1>6

\* What a pass leaves over is touched, what it announced was new.
LEMMA EndPassInv ==
  ASSUME AnnouncerAssumption, LedgerOutlivesRounds, IInv, EndPass
  PROVE  IInv'
<1> USE DEF IInv
<1> DEFINE aged == [b \in Breaches |-> IF b \in Touched THEN 0 ELSE age[b]]
<1>1. /\ at = "announcing" /\ Prune(aged)
      /\ wait' = Others /\ at' = IF Others = 0 THEN "idle" ELSE "others"
      /\ pending' = {} /\ budget' = 0 /\ blind' = FALSE
      /\ UNCHANGED <<open, tier, answered, late, table, slips, sent>>
  BY DEF EndPass
<1>2. \A b \in Breaches : age[b] \in Nat
  BY DEF TypeOK
<1>3. \A b \in Breaches : aged[b] \in Nat
  BY <1>2
<1>4. /\ tries' \in [Breaches -> 0..MaxAttempts] /\ age' \in [Breaches -> 0..(Stale + 1)]
      /\ \A b \in Breaches : age'[b] <= Stale
  BY <1>1, <1>3, PruneTypes
<1>5. wait' \in 0..Others /\ budget' \in 0..Limit /\ (Others # 0 => Others > 0)
  BY <1>1 DEF AnnouncerAssumption
<1>6. TypeOK'
  BY <1>1, <1>4, <1>5 DEF TypeOK
<1>7. SentShape' /\ Phase' /\ PendingUntold'
  BY <1>1, <1>4, <1>5 DEF SentShape, Phase, PendingUntold
<1>8. ASSUME NEW b \in Breaches  PROVE Counted(b)'
  <2> SUFFICES ASSUME sent[b] > 0  PROVE Counted(b)'
    BY <1>1 DEF Counted
  <2>1. /\ Missed(b) /\ table[b] # "told" /\ sent[b] <= tries[b]
        /\ b \in pending \/ age[b] <= Aged(slips)
    BY <1>1 DEF Counted
  <2>2. /\ slips \in 0..MaxFaults /\ slips \in Nat /\ Others \in Nat /\ Stale \in Nat
    BY DEF TypeOK, AnnouncerAssumption
  <2>3. Aged(slips) \in Nat /\ Aged(slips) + Others <= Stale
    BY <2>2, AgedNat, AgedFits
  <2>4. aged[b] <= Aged(slips) /\ aged[b] \in Nat
    BY <1>2, <2>1, <2>3 DEF Touched
  <2> HIDE DEF aged
  <2>5. aged[b] <= Stale /\ aged[b] <= Aged(slips) + Others /\ Others - Others = 0
    BY <2>2, <2>3, <2>4
  <2>6. tries'[b] = tries[b] /\ age'[b] = aged[b]
    BY <1>1, <2>4, <2>5, PruneKeeps
  <2>7. Missed(b)' /\ table'[b] # "told" /\ sent'[b] <= tries'[b]
    BY <1>1, <2>1, <2>6 DEF Missed
  <2>8. CASE Others = 0
    BY <1>1, <2>5, <2>6, <2>7, <2>8 DEF Counted
  <2>9. CASE Others # 0
    <3>1. at' = "others" /\ Aged(slips) + (Others - Others) = Aged(slips)
      BY <1>1, <2>2, <2>3, <2>9
    <3>2. age'[b] <= Aged(slips) + (Others - Others)
      BY <2>4, <2>6, <3>1
    <3>3. QED
      BY <1>1, <2>7, <3>1, <3>2 DEF Counted
  <2>10. QED
    BY <2>8, <2>9
<1>9. QED
  BY <1>6, <1>7, <1>8

\* The pass of another tenant makes every entry one pass older.
LEMMA OtherPassInv ==
  ASSUME AnnouncerAssumption, LedgerOutlivesRounds, IInv, OtherPass
  PROVE  IInv'
<1> USE DEF IInv
<1> DEFINE aged == [b \in Breaches |-> IF tries[b] = 0 THEN 0 ELSE age[b] + 1]
<1>1. /\ at = "others" /\ Prune(aged)
      /\ wait' = wait - 1 /\ at' = IF wait = 1 THEN "idle" ELSE "others"
      /\ UNCHANGED <<open, tier, answered, late, table, pending, budget, slips, blind,
                     sent>>
  BY DEF OtherPass
<1>2. \A b \in Breaches : age[b] \in Nat /\ age[b] + 1 \in Nat
  BY DEF TypeOK
<1>3. \A b \in Breaches : aged[b] \in Nat
  BY <1>2
<1>4. /\ tries' \in [Breaches -> 0..MaxAttempts] /\ age' \in [Breaches -> 0..(Stale + 1)]
      /\ \A b \in Breaches : age'[b] <= Stale
  BY <1>1, <1>3, PruneTypes
<1>5. /\ wait \in Nat /\ wait <= Others /\ wait > 0 /\ Others \in Nat
      /\ wait - 1 \in 0..Others /\ (wait # 1 => wait - 1 > 0)
  BY <1>1 DEF TypeOK, Phase, AnnouncerAssumption
<1>6. TypeOK'
  BY <1>1, <1>4, <1>5 DEF TypeOK
<1>7. SentShape' /\ Phase' /\ PendingUntold'
  BY <1>1, <1>4, <1>5 DEF SentShape, Phase, PendingUntold
<1>8. ASSUME NEW b \in Breaches  PROVE Counted(b)'
  <2> SUFFICES ASSUME sent[b] > 0  PROVE Counted(b)'
    BY <1>1 DEF Counted
  <2>1. /\ Missed(b) /\ table[b] # "told" /\ sent[b] <= tries[b]
        /\ age[b] <= Aged(slips) + (Others - wait)
    BY <1>1 DEF Counted
  <2>2. /\ slips \in 0..MaxFaults /\ slips \in Nat /\ Stale \in Nat
    BY DEF TypeOK, AnnouncerAssumption
  <2>3. Aged(slips) \in Nat /\ Aged(slips) + Others <= Stale
    BY <1>5, <2>2, AgedNat, AgedFits
  <2>4. aged[b] \in {0, age[b] + 1}
    OBVIOUS
  <2>5. /\ age[b] + 1 <= Aged(slips) + (Others - (wait - 1))
        /\ age[b] + 1 <= Aged(slips) + Others
        /\ 0 <= Aged(slips) + (Others - (wait - 1)) /\ 0 <= Aged(slips) + Others
    BY <1>2, <1>5, <2>1, <2>3
  <2> HIDE DEF aged
  <2>6. /\ aged[b] <= Aged(slips) + (Others - (wait - 1))
        /\ aged[b] <= Aged(slips) + Others /\ aged[b] <= Stale
    <3>1. aged[b] \in Nat
      BY <1>3
    <3>2. QED
      BY <1>5, <2>2, <2>3, <2>4, <2>5, <3>1
  <2>7. tries'[b] = tries[b] /\ age'[b] = aged[b]
    BY <1>1, <1>3, <2>6, PruneKeeps
  <2>8. Missed(b)' /\ table'[b] # "told" /\ sent'[b] <= tries'[b]
    BY <1>1, <2>1, <2>7 DEF Missed
  <2>9. CASE wait = 1
    BY <1>1, <2>6, <2>7, <2>8, <2>9 DEF Counted
  <2>10. CASE wait # 1
    BY <1>1, <2>6, <2>7, <2>8, <2>10 DEF Counted
  <2>11. QED
    BY <2>9, <2>10
<1>9. QED
  BY <1>6, <1>7, <1>8

LEMMA RestartInv ==
  ASSUME AnnouncerAssumption, IInv, Restart
  PROVE  IInv'
<1> USE DEF IInv
<1>1. /\ slips' = slips + 1 /\ slips < MaxFaults
      /\ tries' = [b \in Breaches |-> 0] /\ age' = [b \in Breaches |-> 0]
      /\ sent' = [b \in Breaches |-> 0]
      /\ at' = "idle" /\ pending' = {} /\ budget' = 0 /\ wait' = 0 /\ blind' = FALSE
      /\ UNCHANGED <<open, tier, answered, late, table>>
  BY DEF Restart
<1>2. /\ 0 \in 0..Others /\ 0 \in 0..Limit /\ 0 \in 0..(Stale + 1)
      /\ 0 \in 0..MaxAttempts /\ 0 <= Stale
  BY DEF AnnouncerAssumption
<1>3. slips + 1 \in 0..MaxFaults
  <2>1. slips \in 0..MaxFaults /\ MaxFaults \in Nat /\ slips < MaxFaults
    BY <1>1 DEF TypeOK, AnnouncerAssumption
  <2>2. QED
    BY <2>1
<1>4. TypeOK'
  BY <1>1, <1>2, <1>3 DEF TypeOK
<1>5. SentShape' /\ Phase' /\ PendingUntold' /\ \A b \in Breaches : Counted(b)'
  BY <1>1, <1>2 DEF SentShape, Phase, PendingUntold, Counted
<1>6. QED
  BY <1>4, <1>5

LEMMA Invariance ==
  AnnouncerAssumption /\ LedgerOutlivesRounds /\ Spec => []IInv
<1> SUFFICES ASSUME AnnouncerAssumption, LedgerOutlivesRounds  PROVE Spec => []IInv
  OBVIOUS
<1>1. IInv /\ [Next]_slaVars => IInv'
  <2> SUFFICES ASSUME IInv, [Next]_slaVars  PROVE IInv'
    OBVIOUS
  <2>1. CASE PassStep
    BY <2>1, BeginPassInv, AnnounceInv, EndPassInv, OtherPassInv DEF PassStep
  <2>2. CASE DeskStep
    BY <2>2, DeskInv
  <2>3. CASE Restart
    BY <2>3, RestartInv
  <2>4. CASE UNCHANGED slaVars
    <3>1. TypeOK' /\ SentShape' /\ Phase' /\ PendingUntold'
      BY <2>4 DEF IInv, slaVars, passVars, TypeOK, SentShape, Phase, PendingUntold
    <3>2. \A b \in Breaches : Counted(b)'
      BY <2>4 DEF IInv, slaVars, passVars, Counted, Missed
    <3>3. QED
      BY <3>1, <3>2 DEF IInv
  <2>5. QED
    BY <2>1, <2>2, <2>3, <2>4 DEF Next
<1>2. QED
  BY <1>1, InitInv, PTL DEF Spec

-----------------------------------------------------------------------------
(* What the run checks.                                                    *)

\* Every variable keeps its type; ages stay within one pass of Stale.
THEOREM AnnouncerTypes ==
  AnnouncerAssumption /\ LedgerOutlivesRounds /\ Spec => []TypeOK
<1>1. IInv => TypeOK
  BY DEF IInv
<1>2. QED
  BY <1>1, Invariance, PTL

\* sla.py:214: a breach is announced at most MaxAttempts times while it stays
\* missed and not told, although the passes of other tenants age the ledger and
\* passes fail, as long as an entry may outlive their rounds.
THEOREM CeilingHolds ==
  AnnouncerAssumption /\ LedgerOutlivesRounds /\ Spec => []RetriesAreCapped
<1> SUFFICES ASSUME AnnouncerAssumption, LedgerOutlivesRounds
             PROVE  Spec => []RetriesAreCapped
  OBVIOUS
<1>1. IInv => RetriesAreCapped
  <2> SUFFICES ASSUME IInv, NEW b \in Breaches
               PROVE  sent[b] <= MaxAttempts
    BY DEF RetriesAreCapped
  <2>1. /\ sent[b] \in Nat /\ tries[b] \in 0..MaxAttempts /\ MaxAttempts \in Nat
        /\ sent[b] > 0 => sent[b] <= tries[b]
    BY DEF IInv, TypeOK, SentShape, Counted, AnnouncerAssumption
  <2>2. QED
    BY <2>1
<1>2. QED
  BY <1>1, Invariance, PTL

\* Only an announcement adds to the attempts of a breach.
LEMMA OnlyAnnouncementsCount ==
  ASSUME AnnouncerAssumption, IInv, [Next]_slaVars, NEW b \in Breaches,
         tries'[b] > tries[b]
  PROVE  /\ at = "announcing" /\ b \in pending
<1>1. tries[b] \in Nat
  BY DEF IInv, TypeOK
<1>2. tries'[b] # tries[b] /\ tries'[b] # 0
  BY <1>1
<1>3. ASSUME NEW aged, Prune(aged)  PROVE FALSE
  BY <1>2, <1>3 DEF Prune
<1>4. ~EndPass /\ ~OtherPass
  BY <1>3 DEF EndPass, OtherPass
<1>5. ~Restart /\ ~DeskStep /\ ~UNCHANGED slaVars
  BY <1>2 DEF Restart, DeskStep, DeadlinePasses, FirstResponse, Resolve, EscalateTier,
              slaVars
<1>6. ASSUME NEW i \in BOOLEAN, NEW h \in BOOLEAN, NEW n \in BOOLEAN, BeginPass(i, h, n)
      PROVE  FALSE
  BY <1>2, <1>6 DEF BeginPass
<1>7. PICK c \in Breaches, delivered, marked \in BOOLEAN : Announce(c, delivered, marked)
  BY <1>4, <1>5, <1>6 DEF Next, PassStep
<1>8. c = b
  BY <1>2, <1>7 DEF Announce, IInv, TypeOK
<1>9. QED
  BY <1>7, <1>8 DEF Announce, LeastTried

\* sla.py:161: what the breach table says is told is announced again only by a
\* pass that could not read that table.
THEOREM NoneToldTwice ==
  AnnouncerAssumption /\ LedgerOutlivesRounds /\ Spec => ToldOnce
<1> SUFFICES ASSUME AnnouncerAssumption, LedgerOutlivesRounds
             PROVE  Spec => ToldOnce
  OBVIOUS
<1>1. IInv /\ [Next]_slaVars =>
        [\A b \in Breaches :
           tries'[b] > tries[b] /\ table[b] = "told" => blind]_slaVars
  BY OnlyAnnouncementsCount DEF IInv, PendingUntold
<1>2. QED
  BY <1>1, Invariance, PTL DEF Spec, ToldOnce

\* sla.py:368: what a pass announces was tried no more often than anything it
\* leaves for a later pass.
THEOREM LeastTriedFirst ==
  AnnouncerAssumption /\ LedgerOutlivesRounds /\ Spec => NoBreachOutranked
<1>1. ASSUME IInv, [Next]_slaVars, at = "announcing",
             NEW b \in pending, NEW c \in pending, b \notin pending', c \in pending'
      PROVE  tries[b] <= tries[c]
  <2>1. ~Restart /\ ~EndPass /\ ~OtherPass
    BY <1>1 DEF Restart, EndPass, OtherPass
  <2>2. ~DeskStep /\ ~UNCHANGED slaVars
    BY <1>1 DEF DeskStep, DeadlinePasses, FirstResponse, Resolve, EscalateTier,
                passVars, slaVars
  <2>3. ~\E i, h, n \in BOOLEAN : BeginPass(i, h, n)
    BY <1>1 DEF BeginPass
  <2>4. PICK d \in Breaches, delivered, marked \in BOOLEAN : Announce(d, delivered, marked)
    BY <1>1, <2>1, <2>2, <2>3 DEF Next, PassStep
  <2>5. d = b
    BY <1>1, <2>4 DEF Announce
  <2>6. QED
    BY <1>1, <2>4, <2>5 DEF Announce, LeastTried
<1>2. IInv /\ [Next]_slaVars =>
        [at = "announcing" =>
           \A b, c \in pending :
             b \notin pending' /\ c \in pending' => tries[b] <= tries[c]]_slaVars
  BY <1>1
<1>3. QED
  BY <1>2, Invariance, PTL DEF Spec, NoBreachOutranked
=============================================================================
