-------------------------- MODULE LightClientProofs ---------------------------
(***************************************************************************)
(* What a light client holds, for every chain, every number of endpoints   *)
(* of which fewer than must agree serve other headers, and every number of *)
(* tasks and starts.                                                       *)
(***************************************************************************)
EXTENDS LightClient, FiniteSetTheorems, WellFoundedInduction, TLAPS

\* A set of heights that is not empty has a least and a greatest.
LEMMA LeastNat ==
  ASSUME NEW S, S \subseteq Nat, S # {}
  PROVE  Min(S) \in S /\ \A x \in S : Min(S) =< x
<1>1. IsWellFoundedOn(OpToRel(<, Nat), Nat)
  BY NatLessThanWellFounded
<1>2. \E b \in S : \A m \in S : ~(<<m, b>> \in OpToRel(<, Nat))
  BY <1>1, WFMin
<1>3. PICK b \in S : \A m \in S : ~(m < b)
  BY <1>2 DEF OpToRel
<1>4. \A m \in S : b =< m
  BY <1>3
<1> QED
  BY <1>4 DEF Min

\* A bounded set of heights that is not empty has a greatest.
LEMMA GreatestNat ==
  ASSUME NEW n \in Nat, NEW S, S \subseteq 0..n, S # {}
  PROVE  Max(S) \in S /\ \A x \in S : Max(S) >= x
<1> DEFINE Above == {m \in Nat : \A x \in S : x =< m}
<1>1. n \in Above
  OBVIOUS
<1>2. Min(Above) \in Above /\ \A m \in Above : Min(Above) =< m
  <2> HIDE DEF Above
  <2>1. Above # {}
    BY <1>1
  <2>2. Above \subseteq Nat
    BY DEF Above
  <2> QED
    BY <2>1, <2>2, LeastNat
<1> DEFINE b == Min(Above)
<1> HIDE DEF b
<1>3. b \in Nat /\ (\A x \in S : x =< b) /\ (\A m \in Above : b =< m)
  BY <1>2 DEF b
<1>4. b \in S
  <2> SUFFICES ASSUME b \notin S PROVE FALSE
    OBVIOUS
  <2>1. \A x \in S : x < b
    BY <1>3
  <2> PICK x \in S : TRUE
    OBVIOUS
  <2> x \in Nat /\ S \subseteq Nat
    OBVIOUS
  <2>2. S \subseteq Nat /\ b - 1 \in Nat
    BY <1>3, <2>1
  <2>3. b - 1 \in Above
    BY <1>3, <2>1, <2>2
  <2> QED
    BY <1>3, <2>3
<1> QED
  BY <1>3, <1>4 DEF Max

-----------------------------------------------------------------------------
\* What answers that are no failures are.
AnswerOf(e, u, h, height) ==
  /\ u.height \in Heights /\ u.served = TRUE
  /\ e \notin Wrong => u.app \in {AppHash[k] : k \in 1..height}

\* Only a wrong endpoint answers with an app hash the chain never had.
LEMMA AnswersFacts ==
  ASSUME NEW e, NEW h, NEW height \in Heights, NEW u \in Answers(e, h, height), u # NoHeader
  PROVE  AnswerOf(e, u, h, height)
<1> DEFINE Own == {ChainHeader(k, TRUE) : k \in IF h = None THEN 1..height ELSE {h} \cap 1..height}
           Anyones == [height : Heights, app : Range(AppHash) \cup {OtherHash}, served : {TRUE}]
<1>1. (\E k \in 1..height : u = ChainHeader(k, TRUE)) \/ (e \in Wrong /\ u \in Anyones)
  <2>1. u \in Own => \E k \in 1..height : u = ChainHeader(k, TRUE)
    OBVIOUS
  <2>2. Answers(e, h, height) = {NoHeader} \cup Own \cup (IF e \in Wrong THEN Anyones ELSE {})
    BY DEF Answers
  <2> HIDE DEF Own, Anyones
  <2> QED
    BY <2>1, <2>2
<1>2. CASE \E k \in 1..height : u = ChainHeader(k, TRUE)
  <2> PICK k \in 1..height : u = ChainHeader(k, TRUE)
    BY <1>2
  <2> k \in Heights
    BY ConfigAssumption DEF Heights
  <2> QED
    BY DEF AnswerOf, ChainHeader, Header
<1>3. CASE e \in Wrong /\ u \in Anyones
  BY <1>3 DEF AnswerOf
<1> HIDE DEF Own, Anyones
<1> QED
  BY <1>1, <1>2, <1>3

\* The endpoints that answered are among those asked.
LEMMA CollectedFacts ==
  ASSUME NEW h, NEW height \in Heights, NEW s \in Collected(h, height)
  PROVE  /\ DOMAIN s \subseteq 1..Endpoints
         /\ \A e \in DOMAIN s : AnswerOf(e, s[e], h, height)
<1>1. PICK answers : /\ DOMAIN answers = 1..Endpoints
                     /\ \A e \in 1..Endpoints : answers[e] \in Answers(e, h, height)
                     /\ s = Successes(answers)
  BY DEF Collected
<1>2. /\ DOMAIN s = {e \in 1..Endpoints : answers[e] # NoHeader}
      /\ \A e \in DOMAIN s : s[e] = answers[e]
  BY <1>1 DEF Successes, Restrict
<1>3. ASSUME NEW e \in DOMAIN s PROVE AnswerOf(e, s[e], h, height)
  <2>1. answers[e] # NoHeader /\ answers[e] \in Answers(e, h, height) /\ s[e] = answers[e]
    BY <1>1, <1>2
  <2> QED
    BY <2>1, AnswersFacts
<1> QED
  BY <1>2, <1>3

\* What enough endpoints gave, one of them gave that serves the chain's.
LEMMA AgreedFacts ==
  ASSUME NEW f, DOMAIN f \subseteq 1..Endpoints, NEW x, Agreed(f, x)
  PROVE  \E e \in DOMAIN f : f[e] = x /\ e \notin Wrong
<1> DEFINE givers == {i \in DOMAIN f : f[i] = x}
<1>1. IsFiniteSet(1..Endpoints) /\ Endpoints \in Nat /\ MinValidators \in Nat
  BY FS_Interval, ConfigAssumption DEF ConfigAccepted
<1>2. IsFiniteSet(Wrong) /\ Cardinality(Wrong) \in Nat /\ Cardinality(Wrong) < MinValidators
  BY <1>1, FS_Subset, FS_CardinalityType, ConfigAssumption
<1>3. IsFiniteSet(givers) /\ Cardinality(givers) \in Nat
  BY <1>1, FS_Subset, FS_CardinalityType
<1>4. Cardinality(givers) >= MinValidators
  BY DEF Agreed, Count
<1>5. ~(givers \subseteq Wrong)
  <2> SUFFICES ASSUME givers \subseteq Wrong PROVE FALSE
    OBVIOUS
  <2> HIDE DEF givers
  <2>1. Cardinality(givers) =< Cardinality(Wrong)
    BY <1>2, FS_Subset
  <2> QED
    BY <1>1, <1>2, <1>3, <1>4, <2>1
<1> QED
  BY <1>5

\* A header the endpoints agreed on is one that some endpoint served, with an
\* app hash of the chain so far.
LEMMA FirstUseFacts ==
  ASSUME NEW height \in Heights, NEW u \in HeadersFor[None][height], u # NoHeader
  PROVE  /\ u.height \in Heights /\ u.served = TRUE
         /\ u.app \in {AppHash[k] : k \in 1..height}
<1>1. PICK s \in Collected(None, height) : u = ConsensusHeader(s)
  BY DEF HeadersFor
<1> DEFINE apps == [i \in DOMAIN s |-> s[i].app]
           m == MostCommon(apps)
           givers == {i \in DOMAIN s : s[i].app = m}
<1>2. /\ DOMAIN s \subseteq 1..Endpoints
      /\ \A e \in DOMAIN s : AnswerOf(e, s[e], None, height)
  BY CollectedFacts
<1>3. Agreed(apps, m) /\ u = s[Min(givers)]
  BY <1>1 DEF ConsensusHeader
<1>4. PICK e \in DOMAIN s : apps[e] = m /\ e \notin Wrong
  <2> HIDE DEF m
  <2>1. DOMAIN apps = DOMAIN s
    OBVIOUS
  <2> HIDE DEF apps
  <2> QED
    BY <1>2, <1>3, <2>1, AgreedFacts
<1>5. m \in {AppHash[k] : k \in 1..height} /\ e \in givers
  <2> HIDE DEF m
  <2> QED
    BY <1>2, <1>4 DEF AnswerOf
<1>6. Min(givers) \in givers
  <2> HIDE DEF m
  <2>1. givers \subseteq Nat
    BY <1>2, ConfigAssumption DEF ConfigAccepted
  <2> HIDE DEF givers
  <2> QED
    BY <1>5, <2>1, LeastNat
<1>7. u.app = m /\ AnswerOf(Min(givers), u, None, height)
  <2> HIDE DEF m
  <2> QED
    BY <1>2, <1>3, <1>6
<1> QED
  BY <1>5, <1>7 DEF AnswerOf

\* A height the endpoints agreed on is one of the chain's.
LEMMA HeightFacts ==
  ASSUME NEW height \in Heights, NEW h \in HeightsFor[height]
  PROVE  h \in Nat
<1>1. PICK s \in Collected(None, height) : h = ConsensusHeight(s)
  BY DEF HeightsFor
<1> DEFINE heights == [i \in DOMAIN s |-> s[i].height]
           m == MostCommon(heights)
<1>2. /\ DOMAIN s \subseteq 1..Endpoints
      /\ \A e \in DOMAIN s : AnswerOf(e, s[e], None, height)
  BY CollectedFacts
<1>3. CASE h = None
  BY <1>3 DEF None
<1>4. CASE h # None
  <2>1. h = m /\ Agreed(heights, m)
    BY <1>1, <1>4 DEF ConsensusHeight
  <2> HIDE DEF m
  <2>2. DOMAIN heights = DOMAIN s
    OBVIOUS
  <2>3. PICK e \in DOMAIN s : heights[e] = m
    <3> HIDE DEF heights
    <3> QED
      BY <1>2, <2>1, <2>2, AgreedFacts
  <2> QED
    BY <1>2, <2>1, <2>3, ConfigAssumption DEF AnswerOf, Heights
<1> QED
  BY <1>3, <1>4

-----------------------------------------------------------------------------
\* The chain and the headers held: each is of its height, vouched for, and its
\* app hash one of the chain's; one the application gave is the chain's own.
VouchedFor(h, u) ==
  /\ u.height = h /\ u \in vouched
  /\ u.app \in {AppHash[k] : k \in 1..chain}
  /\ ~u.served => h =< chain /\ u.app = AppHash[h]

HeldInv ==
  /\ chain \in Heights
  /\ DOMAIN trusted \subseteq Heights
  /\ trusted = [h \in DOMAIN trusted |-> trusted[h]]
  /\ \A h \in DOMAIN trusted : VouchedFor(h, trusted[h])

\* No header is ever held that was fetched to be verified.
LEMMA NothingAccepted ==
  ASSUME NEW u PROVE ~Accepts(u)
BY DEF Accepts, HeaderVerified

\* What is held after headers are added.
LEMMA HoldFacts ==
  ASSUME NEW new, DOMAIN new \subseteq Heights, trusted' = With(new)
  PROVE  /\ DOMAIN trusted' = DOMAIN new \cup DOMAIN trusted
         /\ trusted' = [h \in DOMAIN trusted' |-> trusted'[h]]
         /\ \A h \in DOMAIN new : trusted'[h] = new[h]
         /\ \A h \in DOMAIN trusted \ DOMAIN new : trusted'[h] = trusted[h]
BY DEF With

\* Headers that are the chain's, or agreed on, may be taken.
LEMMA VouchKeeps ==
  ASSUME HeldInv, UNCHANGED chain,
         NEW new, DOMAIN new \subseteq Heights, trusted' = With(new),
         Vouch(Range(new)),
         \A h \in DOMAIN new :
           /\ new[h].height = h
           /\ new[h].app \in {AppHash[k] : k \in 1..chain}
           /\ ~new[h].served => h =< chain /\ new[h].app = AppHash[h]
  PROVE  HeldInv'
<1>1. /\ DOMAIN trusted' = DOMAIN new \cup DOMAIN trusted
      /\ trusted' = [h \in DOMAIN trusted' |-> trusted'[h]]
      /\ \A h \in DOMAIN new : trusted'[h] = new[h]
      /\ \A h \in DOMAIN trusted \ DOMAIN new : trusted'[h] = trusted[h]
  BY HoldFacts
<1>2. ASSUME NEW h \in DOMAIN trusted' PROVE VouchedFor(h, trusted[h])'
  <2>1. trusted'[h] \in Range(trusted')
    BY DEF Range
  <2>2. CASE h \in DOMAIN new
    <3>1. trusted'[h] = new[h] /\ new[h] \in Range(new)
      BY <1>1, <2>2 DEF Range
    <3>2. trusted'[h] \in vouched'
      BY <2>1, <3>1 DEF Vouch
    <3> QED
      BY <2>2, <3>1, <3>2 DEF VouchedFor
  <2>3. CASE h \in DOMAIN trusted \ DOMAIN new
    <3>1. trusted'[h] = trusted[h] /\ VouchedFor(h, trusted[h])
      BY <1>1, <2>3 DEF HeldInv
    <3>2. trusted'[h] \in vouched'
      BY <2>1, <3>1 DEF Vouch, VouchedFor
    <3> QED
      BY <3>1, <3>2 DEF VouchedFor
  <2> QED
    BY <1>1, <2>2, <2>3
<1>3. chain' \in Heights /\ DOMAIN trusted' \subseteq Heights
  BY <1>1 DEF HeldInv
<1> QED
  BY <1>1, <1>2, <1>3 DEF HeldInv

\* One header that initialises the client.
LEMMA InitialiseKeeps ==
  ASSUME HeldInv, UNCHANGED chain, NEW u, u.height \in Heights, Hold(u), Vouch({u}),
         u.app \in {AppHash[k] : k \in 1..chain},
         ~u.served => u.height =< chain /\ u.app = AppHash[u.height]
  PROVE  HeldInv'
<1> DEFINE new == [h \in {u.height} |-> u]
<1>1. DOMAIN new = {u.height} /\ new[u.height] = u /\ Range(new) = {u}
  BY DEF Range
<1>2. trusted' = With(new)
  BY DEF Hold
<1> HIDE DEF new
<1> QED
  BY <1>1, <1>2, VouchKeeps

\* Importing what was exported vouches for it.
LEMMA ImportKeeps ==
  ASSUME HeldInv, UNCHANGED chain, NEW heights \in SUBSET (1..chain),
         trusted' = With(Exported(heights)), Vouch(Range(Exported(heights)))
  PROVE  HeldInv'
<1> DEFINE new == Exported(heights)
<1>1. DOMAIN new = heights /\ \A h \in heights : new[h] = ChainHeader(h, FALSE)
  BY DEF Exported
<1>2. heights \subseteq Heights /\ heights \subseteq 1..chain
  BY ConfigAssumption DEF HeldInv, Heights
<1>3. trusted' = With(new) /\ Vouch(Range(new))
  OBVIOUS
<1> HIDE DEF new
<1>4. ASSUME NEW h \in DOMAIN new
      PROVE  /\ new[h].height = h
             /\ new[h].app \in {AppHash[k] : k \in 1..chain}
             /\ ~new[h].served => h =< chain /\ new[h].app = AppHash[h]
  <2>1. new[h] = [height |-> h, app |-> AppHash[h], served |-> FALSE] /\ h \in 1..chain
    BY <1>1, <1>2 DEF ChainHeader, Header
  <2> QED
    BY <2>1, ConfigAssumption DEF HeldInv, Heights
<1> QED
  BY <1>1, <1>2, <1>3, <1>4, VouchKeeps

\* Steps that hold nothing new, those of the chain included.
LEMMA HeldStutters ==
  ASSUME HeldInv, UNCHANGED <<trusted, vouched>>,
         chain' \in Heights, chain' \in {chain, chain + 1}
  PROVE  HeldInv'
<1>1. chain \in Nat /\ 1..chain \subseteq 1..chain' /\ chain =< chain'
  BY ConfigAssumption DEF HeldInv, Heights
<1>2. ASSUME NEW h \in DOMAIN trusted PROVE VouchedFor(h, trusted[h])'
  <2>1. VouchedFor(h, trusted[h]) /\ h \in Nat
    BY ConfigAssumption DEF HeldInv, Heights
  <2>2. trusted[h].app \in {AppHash[k] : k \in 1..chain'}
    BY <1>1, <2>1 DEF VouchedFor
  <2>3. ~trusted[h].served => h =< chain'
    BY <1>1, <2>1 DEF VouchedFor
  <2> QED
    BY <2>1, <2>2, <2>3 DEF VouchedFor
<1> QED
  BY <1>2 DEF HeldInv

-----------------------------------------------------------------------------
\* What each kind of step does with the headers held.
Initialises ==
  \E u : /\ u.height \in Heights /\ u.app \in {AppHash[k] : k \in 1..chain}
         /\ ~u.served => u.height =< chain /\ u.app = AppHash[u.height]
         /\ Initialise(u) /\ Vouch({u})
  /\ UNCHANGED <<chain, synced>>

Syncs ==
  /\ UNCHANGED <<chain, clientState, vouched>>
  /\ \/ UNCHANGED synced
     \/ \E h \in Nat : /\ synced' = IF latest # None /\ h =< latest THEN latest ELSE h
                       /\ \/ latest # None /\ h =< latest
                          \/ ~(FirstToSync =< h)

Keeps == UNCHANGED <<chain, clientState, vouched, synced>>

\* Every step that changes what is held is one of three.
LEMMA StepFacts ==
  ASSUME HeldInv, [Next]_vars
  PROVE  Keeps \/ Initialises \/ Syncs \/ Import \/ NewBlock
<1>1. CASE Start
  BY <1>1 DEF Start, Keeps
<1>2. CASE StopCancel
  BY <1>2 DEF StopCancel, Keeps
<1>3. CASE StopClose
  BY <1>3 DEF StopClose, Keeps
<1>4. ASSUME NEW c \in Callers, CallFirstUse(c) PROVE Keeps
  BY <1>4 DEF CallFirstUse, Keeps
<1>5. ASSUME NEW c \in Callers, CallHeader(c) PROVE Keeps
  BY <1>5 DEF CallHeader, Keeps
<1>6. ASSUME NEW c \in Callers, FirstUse(c) PROVE Keeps \/ Initialises
  <2>1. PICK u \in Fetched(None) :
          IF u = NoHeader THEN UNCHANGED <<clientState, vouched>> ELSE Initialise(u) /\ Vouch({u})
    BY <1>6 DEF FirstUse
  <2>2. UNCHANGED <<chain, synced>>
    BY <1>6 DEF FirstUse
  <2>3. CASE u = NoHeader
    BY <2>1, <2>2, <2>3 DEF Keeps
  <2>4. CASE u # NoHeader
    <3>1. u \in HeadersFor[None][chain] /\ chain \in Heights
      BY <2>1, <2>4 DEF Fetched, HeldInv
    <3>2. /\ u.height \in Heights /\ u.served = TRUE
          /\ u.app \in {AppHash[k] : k \in 1..chain}
      BY <2>4, <3>1, FirstUseFacts
    <3>3. Initialise(u) /\ Vouch({u})
      BY <2>1, <2>4
    <3> QED
      BY <2>2, <3>2, <3>3 DEF Initialises
  <2> QED
    BY <2>3, <2>4
<1>7. ASSUME NEW c \in Callers, FetchHeader(c) PROVE Keeps
  BY <1>7, NothingAccepted DEF FetchHeader, Check, Keeps
<1>8. ASSUME NEW t \in Tasks, CallSync(t) PROVE Keeps
  BY <1>8 DEF CallSync, Keeps
<1>9. ASSUME NEW t \in Tasks, SyncHeight(t) PROVE Syncs
  <2> DEFINE done(h) == latest # None /\ h =< latest
  <2>1. PICK h \in FetchedHeight :
          IF h # None /\ ~done(h) /\ FirstToSync =< h THEN UNCHANGED synced
          ELSE synced' = IF h = None THEN synced ELSE IF done(h) THEN latest ELSE h
    BY <1>9 DEF SyncHeight
  <2>2. UNCHANGED <<chain, clientState, vouched>>
    BY <1>9 DEF SyncHeight
  <2>3. h \in Nat
    <3>1. chain \in Heights
      BY DEF HeldInv
    <3> QED
      BY <3>1, HeightFacts DEF FetchedHeight, None
  <2>4. CASE UNCHANGED synced
    BY <2>2, <2>4 DEF Syncs
  <2>5. CASE synced' = (IF done(h) THEN latest ELSE h) /\ (done(h) \/ ~(FirstToSync =< h))
    BY <2>2, <2>3, <2>5 DEF Syncs
  <2> QED
    BY <2>1, <2>4, <2>5
<1>10. ASSUME NEW t \in Tasks, SyncHeader(t) PROVE Keeps
  BY <1>10, NothingAccepted DEF SyncHeader, Check, Keeps
<1>11. CASE Give
  <2>1. PICK h \in 1..chain : LET u == ChainHeader(h, FALSE) IN Initialise(u) /\ Vouch({u})
    BY <1>11 DEF Give
  <2> DEFINE u == ChainHeader(h, FALSE)
  <2>2. h \in Heights /\ h =< chain
    BY ConfigAssumption DEF HeldInv, Heights
  <2>3. u.height = h /\ u.app = AppHash[h] /\ u.served = FALSE
    BY DEF ChainHeader, Header
  <2>4. UNCHANGED <<chain, synced>>
    BY <1>11 DEF Give
  <2>5. Initialise(u) /\ Vouch({u})
    BY <2>1
  <2> HIDE DEF u
  <2> QED
    BY <2>2, <2>3, <2>4, <2>5 DEF Initialises
<1>12. CASE UNCHANGED vars
  BY <1>12 DEF vars, Keeps, clientState
<1> QED
  BY <1>1, <1>2, <1>3, <1>4, <1>5, <1>6, <1>7, <1>8, <1>9, <1>10, <1>11, <1>12 DEF Next

\* Every step keeps the invariant.
LEMMA HeldStep == HeldInv /\ [Next]_vars => HeldInv'
<1> SUFFICES ASSUME HeldInv, [Next]_vars PROVE HeldInv'
  OBVIOUS
<1>1. CASE Keeps \/ Syncs
  <2>1. UNCHANGED <<chain, trusted, vouched>>
    BY <1>1 DEF Keeps, Syncs, clientState
  <2> QED
    BY <2>1, HeldStutters DEF HeldInv
<1>2. CASE Initialises
  <2>1. PICK u : /\ u.height \in Heights /\ u.app \in {AppHash[k] : k \in 1..chain}
                 /\ ~u.served => u.height =< chain /\ u.app = AppHash[u.height]
                 /\ Initialise(u) /\ Vouch({u})
    BY <1>2 DEF Initialises
  <2>2. UNCHANGED chain /\ Hold(u)
    BY <1>2, <2>1 DEF Initialises, Initialise
  <2> QED
    BY <2>1, <2>2, InitialiseKeeps
<1>3. CASE Import
  BY <1>3, ImportKeeps DEF Import
<1>4. CASE NewBlock
  <2>1. chain' \in Heights
    BY <1>4, ConfigAssumption DEF NewBlock, HeldInv, Heights
  <2>2. UNCHANGED <<trusted, vouched>> /\ chain' = chain + 1
    BY <1>4 DEF NewBlock, clientState
  <2> QED
    BY <2>1, <2>2, HeldStutters
<1> QED
  BY <1>1, <1>2, <1>3, <1>4, StepFacts

\* A client holds nothing at first.
LEMMA HeldInit == Init => HeldInv
BY DEF Init, HeldInv, NoEntry

\* The headers held are the chain's and vouched for, whatever ran.
THEOREM HeldInvariant == Spec => []HeldInv
BY HeldInit, HeldStep, PTL DEF Spec

\* None that a sync or a lookup fetched is held.
THEOREM HeldAreVouched == Spec => []HeldIsVouched
<1>1. HeldInv => HeldIsVouched
  BY DEF HeldInv, VouchedFor, HeldIsVouched, Range
<1> QED
  BY <1>1, HeldInvariant, PTL

\* Fewer endpoints than must agree do not bring in an app hash of their own.
THEOREM HeldAppsAreTheChains == Spec => []HeldAppIsChains
<1>1. HeldInv => HeldAppIsChains
  <2> SUFFICES ASSUME HeldInv, NEW u \in Range(trusted)
               PROVE  u.app \in {AppHash[h] : h \in 1..chain}
    BY DEF HeldAppIsChains
  <2> PICK h \in DOMAIN trusted : u = trusted[h]
    BY DEF Range
  <2> QED
    BY DEF HeldInv, VouchedFor
<1> QED
  BY <1>1, HeldInvariant, PTL

-----------------------------------------------------------------------------
\* The recursion of Unmatched, as far as upto.
Takes(items, result, upto, f) ==
  f = [n \in 0..upto |-> IF n = 0 THEN DOMAIN items ELSE Take(items, f[n - 1], result[n])]

\* There is a function that satisfies it.
LEMMA TakesExist ==
  ASSUME NEW items, NEW result, NEW l \in Nat
  PROVE  \E f : Takes(items, result, l, f)
<1> DEFINE Bad == {k \in Nat : ~\E f : Takes(items, result, k, f)}
<1> SUFFICES ASSUME Bad # {} PROVE FALSE
  OBVIOUS
<1> DEFINE b == Min(Bad)
<1>1. b \in Bad /\ \A m \in Bad : b =< m
  <2>1. Bad \subseteq Nat
    OBVIOUS
  <2> HIDE DEF Bad
  <2> QED
    BY <2>1, LeastNat
<1>2. b \in Nat /\ ~\E f : Takes(items, result, b, f)
  BY <1>1
<1> HIDE DEF b
<1>3. CASE b = 0
  <2> DEFINE f == [n \in 0..0 |-> DOMAIN items]
  <2>1. Takes(items, result, 0, f)
    BY DEF Takes
  <2> QED
    BY <1>2, <1>3, <2>1
<1>4. CASE b # 0
  <2>1. b - 1 \in Nat /\ b - 1 \notin Bad
    BY <1>1, <1>2, <1>4
  <2>2. PICK f : Takes(items, result, b - 1, f)
    BY <2>1
  <2> DEFINE g == [n \in 0..b |-> IF n < b THEN f[n] ELSE Take(items, f[b - 1], result[b])]
  <2>3. ASSUME NEW n \in 0..b
        PROVE  g[n] = IF n = 0 THEN DOMAIN items ELSE Take(items, g[n - 1], result[n])
    <3>1. CASE n < b
      <4>1. n \in 0..(b - 1) /\ (n # 0 => n - 1 \in 0..b /\ n - 1 < b) /\ g[n] = f[n]
        BY <1>2, <3>1
      <4>2. f[n] = IF n = 0 THEN DOMAIN items ELSE Take(items, f[n - 1], result[n])
        BY <2>2, <4>1 DEF Takes
      <4> QED
        BY <4>1, <4>2
    <3>2. CASE n = b
      <4>1. n # 0 /\ n - 1 \in 0..b /\ n - 1 < b
        BY <1>2, <1>4, <3>2
      <4>2. g[n - 1] = f[b - 1]
        BY <3>2, <4>1
      <4>3. g[n] = Take(items, f[b - 1], result[b])
        BY <3>2
      <4> QED
        BY <3>2, <4>1, <4>2, <4>3
    <3> QED
      BY <1>2, <3>1, <3>2
  <2>4. g = [n \in 0..b |-> g[n]]
    OBVIOUS
  <2> HIDE DEF g
  <2>5. Takes(items, result, b, g)
    BY <2>3, <2>4 DEF Takes
  <2> QED
    BY <1>2, <2>5
<1> QED
  BY <1>3, <1>4

\* Unmatched is the recursion it is written as, one entry of the answer at a time.
LEMMA UnmatchedFacts ==
  ASSUME NEW items, NEW result, Len(result) \in Nat
  PROVE  /\ Unmatched(items, result)[0] = DOMAIN items
         /\ \A n \in 1..Len(result) :
              Unmatched(items, result)[n] = Take(items, Unmatched(items, result)[n - 1], result[n])
<1>1. PICK f : Takes(items, result, Len(result), f)
  BY TakesExist
<1>2. Takes(items, result, Len(result), CHOOSE g : Takes(items, result, Len(result), g))
  BY <1>1
<1>3. Unmatched(items, result) = CHOOSE g : Takes(items, result, Len(result), g)
  BY DEF Unmatched, Takes
<1>4. Takes(items, result, Len(result), Unmatched(items, result))
  BY <1>2, <1>3
<1> QED
  BY <1>4 DEF Takes

\* The Items of a payload that are left, and its entries up to the nth.
LeftOf(items, left, p) == {i \in left \ {None} : items[i] = p}
EntriesOf(result, n, p) == {i \in 1..n : result[i] = p}

\* Items left and entries that took one are no more than the Items.
Balanced(items, result, n, p) ==
  LET left == Unmatched(items, result)[n]
  IN left # {None} =>
       /\ left \subseteq DOMAIN items
       /\ Cardinality(LeftOf(items, left, p)) + Cardinality(EntriesOf(result, n, p))
            =< Count(items, p)

\* One entry matched is one Item fewer to match.
LEMMA TakeBalances ==
  ASSUME NEW items \in Results, NEW result \in Results, NEW p,
         NEW n \in 1..Len(result), Balanced(items, result, n - 1, p)
  PROVE  Balanced(items, result, n, p)
<1> DEFINE left == Unmatched(items, result)[n - 1]
           next == Unmatched(items, result)[n]
           same == LeftOf(items, left, result[n])
           entries == EntriesOf(result, n - 1, p)
           items_p == {i \in DOMAIN items : items[i] = p}
<1>1. /\ Len(result) \in Nat /\ Len(items) \in Nat /\ DOMAIN items = 1..Len(items)
      /\ n \in Nat /\ n - 1 \in Nat
  BY ConfigAssumption
<1>2. next = IF same = {} THEN {None} ELSE left \ {Min(same)}
  <2>1. next = Take(items, left, result[n])
    BY <1>1, UnmatchedFacts
  <2> HIDE DEF left, next
  <2> QED
    BY <2>1 DEF Take, LeftOf
<1> SUFFICES ASSUME next # {None}
             PROVE  /\ next \subseteq DOMAIN items
                    /\ Cardinality(LeftOf(items, next, p)) + Cardinality(EntriesOf(result, n, p))
                         =< Count(items, p)
  BY DEF Balanced
<1> HIDE DEF next
<1>3. same # {} /\ left # {None} /\ next = left \ {Min(same)}
  BY <1>2 DEF LeftOf
<1>4. /\ left \subseteq DOMAIN items
      /\ Cardinality(LeftOf(items, left, p)) + Cardinality(entries) =< Count(items, p)
  BY <1>3 DEF Balanced
<1> DEFINE k == Min(same)
<1>5. k \in same
  <2>1. same \subseteq Nat
    BY <1>1, <1>4 DEF LeftOf
  <2> HIDE DEF same
  <2> QED
    BY <1>3, <2>1, LeastNat
<1> HIDE DEF k, left
<1>6. k \in left /\ k # None /\ items[k] = result[n] /\ next = left \ {k}
  BY <1>3, <1>5 DEF LeftOf, k
<1>7. IsFiniteSet(DOMAIN items) /\ IsFiniteSet(1..(n - 1))
  BY <1>1, FS_Interval
<1>8. LeftOf(items, left, p) \subseteq DOMAIN items /\ entries \subseteq 1..(n - 1)
  BY <1>4 DEF LeftOf, EntriesOf
<1>9. /\ IsFiniteSet(LeftOf(items, left, p)) /\ Cardinality(LeftOf(items, left, p)) \in Nat
      /\ IsFiniteSet(entries) /\ Cardinality(entries) \in Nat
  <2> HIDE DEF entries
  <2> QED
    BY <1>7, <1>8, FS_Subset, FS_CardinalityType
<1>10. IsFiniteSet(items_p) /\ Cardinality(items_p) \in Nat /\ Count(items, p) = Cardinality(items_p)
  <2>1. Count(items, p) = Cardinality(items_p) /\ items_p \subseteq DOMAIN items
    BY DEF Count
  <2> HIDE DEF items_p
  <2> QED
    BY <1>7, <2>1, FS_Subset, FS_CardinalityType
<1>11. CASE result[n] = p
  <2>1. /\ LeftOf(items, next, p) = LeftOf(items, left, p) \ {k}
        /\ k \in LeftOf(items, left, p)
    BY <1>6, <1>11 DEF LeftOf
  <2>2. EntriesOf(result, n, p) = entries \cup {n} /\ n \notin entries
    BY <1>1, <1>11 DEF EntriesOf
  <2> HIDE DEF entries
  <2>3. Cardinality(LeftOf(items, next, p)) = Cardinality(LeftOf(items, left, p)) - 1
    BY <1>9, <2>1, FS_RemoveElement
  <2>4. Cardinality(EntriesOf(result, n, p)) = Cardinality(entries) + 1
    BY <1>9, <2>2, FS_AddElement
  <2> QED
    BY <1>4, <1>6, <1>9, <1>10, <2>3, <2>4
<1>12. CASE result[n] # p
  <2>1. LeftOf(items, next, p) = LeftOf(items, left, p)
    BY <1>6, <1>12 DEF LeftOf
  <2>2. EntriesOf(result, n, p) = entries
    BY <1>1, <1>12 DEF EntriesOf
  <2> QED
    BY <1>4, <1>6, <2>1, <2>2
<1> QED
  BY <1>11, <1>12

\* Where each entry found an Item of its payload, no payload is answered more
\* often than it is proved.
LEMMA MatchedFacts ==
  ASSUME NEW items \in Results, NEW result \in Results, NEW p, Matched(items, result)
  PROVE  Count(result, p) =< Count(items, p)
<1> DEFINE l == Len(result)
           Bad == {n \in 0..l : ~Balanced(items, result, n, p)}
<1>1. /\ l \in Nat /\ DOMAIN result = 1..l /\ Len(items) \in Nat
      /\ DOMAIN items = 1..Len(items) /\ l \in 0..l
  BY ConfigAssumption
<1>2. Balanced(items, result, 0, p)
  <2>1. Unmatched(items, result)[0] = DOMAIN items
    BY <1>1, UnmatchedFacts
  <2>2. LeftOf(items, DOMAIN items, p) = {i \in DOMAIN items : items[i] = p}
    BY <1>1 DEF LeftOf, None
  <2>3. EntriesOf(result, 0, p) = {}
    BY DEF EntriesOf
  <2>4. IsFiniteSet(DOMAIN items)
    BY <1>1, FS_Interval
  <2>5. Count(items, p) \in Nat /\ Cardinality({}) = 0
    <3>1. {i \in DOMAIN items : items[i] = p} \subseteq DOMAIN items
      OBVIOUS
    <3> QED
      BY <2>4, <3>1, FS_Subset, FS_CardinalityType, FS_EmptySet DEF Count
  <2> QED
    BY <2>1, <2>2, <2>3, <2>5 DEF Balanced, Count
<1>3. Bad = {}
  <2> SUFFICES ASSUME Bad # {} PROVE FALSE
    OBVIOUS
  <2> DEFINE b == Min(Bad)
  <2>1. b \in Bad /\ \A m \in Bad : b =< m
    <3>1. Bad \subseteq Nat
      OBVIOUS
    <3> HIDE DEF Bad
    <3> QED
      BY <3>1, LeastNat
  <2> HIDE DEF b
  <2>2. b # 0
    BY <1>2, <2>1
  <2>3. b \in 1..l /\ b - 1 \in 0..l /\ b - 1 \notin Bad
    BY <1>1, <2>1, <2>2
  <2>4. Balanced(items, result, b, p)
    BY <2>3, TakeBalances
  <2> QED
    BY <2>1, <2>4
<1>4. Balanced(items, result, l, p)
  BY <1>1, <1>3
<1> DEFINE left == Unmatched(items, result)[l]
<1>5. /\ left \subseteq DOMAIN items
      /\ Cardinality(LeftOf(items, left, p)) + Cardinality(EntriesOf(result, l, p)) =< Count(items, p)
  BY <1>4 DEF Balanced, Matched
<1>6. EntriesOf(result, l, p) = {i \in DOMAIN result : result[i] = p}
  BY <1>1 DEF EntriesOf
<1> HIDE DEF left
<1>7. Cardinality(LeftOf(items, left, p)) \in Nat
  <2>1. LeftOf(items, left, p) \subseteq DOMAIN items /\ IsFiniteSet(DOMAIN items)
    BY <1>1, <1>5, FS_Interval DEF LeftOf
  <2> QED
    BY <2>1, FS_Subset, FS_CardinalityType
<1>8. Cardinality(EntriesOf(result, l, p)) \in Nat /\ Count(items, p) \in Nat
  <2>1. EntriesOf(result, l, p) \subseteq 1..l /\ {i \in DOMAIN items : items[i] = p} \subseteq DOMAIN items
    BY DEF EntriesOf
  <2>2. IsFiniteSet(1..l) /\ IsFiniteSet(DOMAIN items)
    BY <1>1, FS_Interval
  <2> QED
    BY <2>1, <2>2, FS_Subset, FS_CardinalityType DEF Count
<1> QED
  BY <1>5, <1>6, <1>7, <1>8 DEF Count

\* What is accepted is the state after its block, each payload as often as the
\* proof has it.
THEOREM AcceptedIsState == Spec => []ProvedIsState
<1>1. HeldInv => ProvedIsState
  <2> SUFFICES ASSUME HeldInv, NEW height \in Heights, NEW root \in Range(AppHash) \cup {OtherHash},
                      NEW items \in Results, NEW result \in Results,
                      AcceptsProof(height, root, items, result)
               PROVE  /\ \/ trusted[HeaderOf(height)].served
                         \/ height < chain /\ root = AppHash[height + 1]
                      /\ \A p \in ToSet(result) : Count(result, p) =< Count(items, p)
    BY DEF ProvedIsState
  <2>1. height + 1 \in DOMAIN trusted /\ root = trusted[height + 1].app
    BY DEF AcceptsProof, HeaderOf
  <2>2. VouchedFor(height + 1, trusted[height + 1]) /\ height \in Nat /\ chain \in Nat
    BY <2>1, ConfigAssumption DEF HeldInv, Heights
  <2>3. ~trusted[height + 1].served => height < chain /\ root = AppHash[height + 1]
    BY <2>1, <2>2 DEF VouchedFor
  <2>4. ASSUME NEW p \in ToSet(result) PROVE Count(result, p) =< Count(items, p)
    <3>1. result # << >>
      BY <2>4 DEF ToSet
    <3>2. Matched(items, result)
      BY <3>1 DEF AcceptsProof
    <3> QED
      BY <3>2, MatchedFacts
  <2> QED
    BY <2>3, <2>4 DEF HeaderOf
<1> QED
  BY <1>1, HeldInvariant, PTL

-----------------------------------------------------------------------------
\* The bookkeeping of what is held.
RangeInv == latest \in Nat /\ synced \in Nat /\ RangeIsHeld

\* A client that holds none is the one whose entries have no heights.
LEMMA EmptyFacts == ASSUME HeldInv PROVE trusted = NoEntry <=> DOMAIN trusted = {}
BY DEF HeldInv, NoEntry

\* A header given becomes the latest and the whole range.
LEMMA RangeInitialises ==
  ASSUME HeldInv, HeldInv', RangeInv, Initialises PROVE RangeInv'
<1>1. PICK u : u.height \in Heights /\ Initialise(u)
  BY DEF Initialises
<1> DEFINE new == [h \in {u.height} |-> u]
           height == u.height
<1>2. /\ trusted' = With(new) /\ DOMAIN new = {height}
      /\ latest' = height /\ range' = <<height, height>> /\ UNCHANGED synced
  BY <1>1 DEF Initialise, Hold, Initialises
<1>3. DOMAIN trusted' = {height} \cup DOMAIN trusted /\ height \in Nat
  <2> HIDE DEF new
  <2>1. DOMAIN trusted' = {height} \cup DOMAIN trusted
    BY <1>1, <1>2, HoldFacts
  <2> QED
    BY <1>1, <2>1, ConfigAssumption DEF Heights
<1> HIDE DEF new, height
<1>4. (trusted = NoEntry)' <=> (DOMAIN trusted = {})'
  BY DEF HeldInv, NoEntry
<1>5. ~(trusted = NoEntry)'
  BY <1>3, <1>4
<1>6. (synced # None => synced \in DOMAIN trusted \/ synced = 1)'
  BY <1>2, <1>3 DEF RangeInv, RangeIsHeld
<1>7. ({latest, range[1], range[2]} \subseteq DOMAIN trusted
       /\ range[1] =< latest /\ latest =< range[2])'
  BY <1>2, <1>3
<1> QED
  BY <1>2, <1>3, <1>5, <1>6, <1>7 DEF RangeInv, RangeIsHeld

\* A sync that succeeds ends at a header held.
LEMMA RangeSyncs ==
  ASSUME HeldInv, RangeInv, Syncs PROVE RangeInv'
<1>1. UNCHANGED <<trusted, latest, range>>
  BY DEF Syncs, clientState
<1>2. CASE UNCHANGED synced
  BY <1>1, <1>2 DEF RangeInv, RangeIsHeld
<1>3. ASSUME NEW h \in Nat,
             synced' = IF latest # None /\ h =< latest THEN latest ELSE h,
             (latest # None /\ h =< latest) \/ ~(FirstToSync =< h)
      PROVE  RangeInv'
  <2>1. CASE latest # None /\ h =< latest
    <3>1. synced' = latest /\ latest \in DOMAIN trusted
      BY <1>3, <2>1 DEF RangeInv, RangeIsHeld
    <3> QED
      BY <1>1, <3>1 DEF RangeInv, RangeIsHeld
  <2>2. CASE ~(latest # None /\ h =< latest)
    <3>1. latest \in Nat /\ synced' = h /\ ~(FirstToSync =< h)
      BY <1>3, <2>2 DEF RangeInv
    <3>2. latest = None
      BY <2>2, <3>1 DEF FirstToSync
    <3>3. synced' \in {0, 1}
      BY <3>1, <3>2 DEF FirstToSync
    <3> QED
      BY <1>1, <3>3 DEF RangeInv, RangeIsHeld, None
  <2> QED
    BY <2>1, <2>2
<1> QED
  BY <1>2, <1>3 DEF Syncs

\* Imported headers give a range from their least height to their greatest.
LEMMA RangeImport ==
  ASSUME HeldInv, HeldInv', RangeInv, Import PROVE RangeInv'
<1>1. PICK heights \in SUBSET (1..chain) :
        trusted' = With(Exported(heights)) /\ latest' = Max({latest} \cup heights)
  BY DEF Import
<1>2. range' = RangeOf(DOMAIN trusted') /\ UNCHANGED synced
  BY DEF Import
<1>3. DOMAIN Exported(heights) = heights
  BY DEF Exported
<1>4. heights \subseteq Heights /\ heights \subseteq Nat \ {0} /\ Heights \subseteq Nat \ {0}
      /\ heights \subseteq 0..Len(AppHash) /\ Heights \subseteq 0..Len(AppHash)
      /\ Len(AppHash) \in Nat
  BY ConfigAssumption DEF HeldInv, Heights
<1>5. DOMAIN trusted' = heights \cup DOMAIN trusted
  BY <1>1, <1>3, <1>4, HoldFacts
<1> DEFINE held == DOMAIN trusted'
<1>6. held \subseteq 0..Len(AppHash) /\ held \subseteq Nat
  BY <1>4, <1>5 DEF HeldInv
<1>7. latest \in 0..Len(AppHash) /\ (latest = None <=> DOMAIN trusted = {})
  BY <1>4, EmptyFacts DEF RangeInv, RangeIsHeld, HeldInv, None
<1>8. latest' \in {latest} \cup heights /\ \A h \in {latest} \cup heights : latest' >= h
  <2>1. {latest} \cup heights \subseteq 0..Len(AppHash) /\ {latest} \cup heights # {}
    BY <1>4, <1>7
  <2> QED
    BY <1>1, <1>4, <2>1, GreatestNat
<1>9. (trusted = NoEntry)' <=> held = {}
  BY DEF HeldInv, NoEntry
<1>10. (synced # None => synced \in DOMAIN trusted \/ synced = 1)'
  BY <1>2, <1>5 DEF RangeInv, RangeIsHeld
<1>11. CASE held = {}
  <2>1. heights = {} /\ DOMAIN trusted = {}
    BY <1>5, <1>11
  <2>2. latest' = None
    BY <1>7, <1>8, <2>1
  <2>3. range' = <<None, None>>
    BY <1>2, <1>11, <2>1, EmptyFacts DEF RangeOf, RangeInv, RangeIsHeld
  <2> QED
    BY <1>2, <1>9, <1>10, <1>11, <2>2, <2>3 DEF RangeInv, RangeIsHeld, None
<1>12. CASE held # {}
  <2>1. range' = <<Min(held), Max(held)>>
    BY <1>2, <1>12 DEF RangeOf
  <2>2. Min(held) \in held /\ \A h \in held : Min(held) =< h
    <3> HIDE DEF held
    <3> QED
      BY <1>6, <1>12, LeastNat
  <2>3. Max(held) \in held /\ \A h \in held : Max(held) >= h
    <3> HIDE DEF held
    <3> QED
      BY <1>4, <1>6, <1>12, GreatestNat
  <2>4. latest' \in held
    <3>1. CASE latest' \in heights
      BY <1>5, <3>1
    <3>2. CASE latest' \notin heights
      <4>1. latest' = latest
        BY <1>8, <3>2
      <4>2. latest # None
        <5> SUFFICES ASSUME latest = None PROVE FALSE
          OBVIOUS
        <5>1. heights # {}
          BY <1>5, <1>7, <1>12
        <5>2. PICK h \in heights : TRUE
          BY <5>1
        <5> QED
          BY <1>4, <1>8, <4>1, <5>2 DEF None
      <4> QED
        BY <1>5, <1>7, <4>1, <4>2, EmptyFacts DEF RangeInv, RangeIsHeld
    <3> QED
      BY <3>1, <3>2
  <2> HIDE DEF held
  <2>5. range'[1] = Min(held) /\ range'[2] = Max(held)
    BY <2>1
  <2>6. {latest', range'[1], range'[2]} \subseteq held
        /\ range'[1] =< latest' /\ latest' =< range'[2]
    BY <1>6, <2>2, <2>3, <2>4, <2>5
  <2> QED
    BY <1>2, <1>6, <1>9, <1>10, <1>12, <2>4, <2>6 DEF RangeInv, RangeIsHeld, held
<1> QED
  BY <1>11, <1>12

\* Every step keeps the range.
LEMMA RangeStep == HeldInv /\ HeldInv' /\ RangeInv /\ [Next]_vars => RangeInv'
<1> SUFFICES ASSUME HeldInv, HeldInv', RangeInv, [Next]_vars PROVE RangeInv'
  OBVIOUS
<1>1. CASE Keeps \/ NewBlock
  BY <1>1 DEF Keeps, NewBlock, clientState, RangeInv, RangeIsHeld
<1> QED
  BY <1>1, StepFacts, RangeInitialises, RangeSyncs, RangeImport

\* No header, no range.
LEMMA RangeInit == Init => RangeInv
BY DEF Init, RangeInv, RangeIsHeld, None

\* The latest height, the verified range and what a sync reports are held.
THEOREM RangesAreHeld == Spec => []RangeIsHeld
<1>1. RangeInv => RangeIsHeld
  BY DEF RangeInv
<1> QED
  BY <1>1, RangeInit, RangeStep, HeldInvariant, PTL DEF Spec

-----------------------------------------------------------------------------
\* While no start came before the last one was stopped: every earlier start
\* left a closed session and no sync task, no later one has either, and the
\* last one's sync task is gone before its session is closed.
EarlierStopped ==
  /\ \A i \in 1..MaxStarts :
       /\ i < starts => sessions[i] = "closed"
       /\ i > starts => sessions[i] = "none"
       /\ i # starts => tasks[<<"loop", i>>] = Idle
  /\ starts > 0 => sessions[starts] \in {"open", "closed"}
  /\ starts > 0 /\ (stopping \/ sessions[starts] = "closed") =>
       tasks[<<"loop", starts>>] = Idle

StopInv ==
  /\ starts \in 0..MaxStarts
  /\ DOMAIN sessions = 1..MaxStarts /\ DOMAIN tasks = Tasks
  /\ stopping => starts > 0
  /\ ~overlap => EarlierStopped

\* A sync task that was never made or was cancelled does not run again.
LoopsStayIdle ==
  /\ UNCHANGED resources
  /\ DOMAIN tasks' = Tasks
  /\ \A i \in 1..MaxStarts : tasks[<<"loop", i>>] = Idle => tasks'[<<"loop", i>>] = Idle

\* Each start has a loop of its own, which is no caller's task.
LEMMA LoopIsTask ==
  /\ \A i \in 1..MaxStarts : <<"loop", i>> \in Tasks
  /\ \A c \in Callers, i \in 1..MaxStarts : c # <<"loop", i>>
BY TasksAssumption DEF Tasks, Loops

\* An idle task waits for nothing.
LEMMA IdleFacts ==
  Idle.at \notin {"first", "header", "latest", "sync", "sleep"}
BY DEF Idle, Waiting

\* Steps that wake no loop and touch neither session nor loop.
LEMMA LoopsStayIdleKeeps ==
  ASSUME StopInv, LoopsStayIdle PROVE StopInv'
<1>1. /\ starts' = starts /\ sessions' = sessions /\ stopping' = stopping /\ overlap' = overlap
      /\ DOMAIN tasks' = Tasks
      /\ \A i \in 1..MaxStarts : tasks[<<"loop", i>>] = Idle => tasks'[<<"loop", i>>] = Idle
  BY DEF LoopsStayIdle, resources
<1>2. ASSUME EarlierStopped PROVE EarlierStopped'
  <2>1. starts > 0 => starts \in 1..MaxStarts
    BY DEF StopInv
  <2> QED
    BY <1>1, <1>2, <2>1 DEF EarlierStopped
<1> QED
  BY <1>1, <1>2 DEF StopInv

\* A step of one task that does something leaves the idle ones idle.
LEMMA OneTaskMoves ==
  ASSUME DOMAIN tasks = Tasks, UNCHANGED resources,
         NEW t \in Tasks, t \in Callers \/ tasks[t] # Idle,
         NEW x, tasks' = [tasks EXCEPT ![t] = x]
  PROVE  LoopsStayIdle
<1>1. DOMAIN tasks' = Tasks
  OBVIOUS
<1>2. ASSUME NEW i \in 1..MaxStarts, tasks[<<"loop", i>>] = Idle
      PROVE  tasks'[<<"loop", i>>] = Idle
  <2>1. t # <<"loop", i>>
    BY <1>2, LoopIsTask
  <2> QED
    BY <1>2, <2>1, LoopIsTask
<1> QED
  BY <1>1, <1>2 DEF LoopsStayIdle

\* A start opens one session and one loop, and records both.
LEMMA StartKeeps ==
  ASSUME StopInv, StartEffect, UNCHANGED stopping, DOMAIN tasks' = Tasks,
         \A i \in 1..MaxStarts : i # starts + 1 => tasks'[<<"loop", i>>] = tasks[<<"loop", i>>]
  PROVE  StopInv'
<1>1. /\ starts \in Nat /\ starts < MaxStarts /\ starts' = starts + 1
      /\ sessions' = [sessions EXCEPT ![starts + 1] = "open"]
  BY ConfigAssumption DEF StartEffect, StopInv
<1>2. starts' \in 1..MaxStarts /\ DOMAIN sessions' = 1..MaxStarts /\ MaxStarts \in Nat
  BY <1>1, ConfigAssumption DEF StopInv
<1>3. ASSUME ~overlap' PROVE EarlierStopped'
  <2>1. ~overlap /\ ~stopping /\ "open" \notin Range(sessions)
    BY <1>3 DEF StartEffect
  <2>2. EarlierStopped
    BY <2>1 DEF StopInv
  <2>3. starts > 0 => sessions[starts] = "closed" /\ tasks[<<"loop", starts>>] = Idle
    BY <1>1, <2>1, <2>2 DEF EarlierStopped, StopInv, Range
  <2>4. ASSUME NEW i \in 1..MaxStarts
        PROVE  (/\ i < starts => sessions[i] = "closed"
                /\ i > starts => sessions[i] = "none"
                /\ i # starts => tasks[<<"loop", i>>] = Idle)'
    <3>1. /\ i < starts => sessions[i] = "closed"
          /\ i > starts => sessions[i] = "none"
          /\ i # starts => tasks[<<"loop", i>>] = Idle
      BY <2>2 DEF EarlierStopped
    <3>2. i # starts + 1 => sessions'[i] = sessions[i] /\ tasks'[<<"loop", i>>] = tasks[<<"loop", i>>]
      BY <1>1, <1>2 DEF StopInv
    <3>3. CASE i = starts
      BY <1>1, <2>3, <3>2, <3>3
    <3>4. CASE i = starts + 1
      BY <1>1, <3>4
    <3>5. CASE i < starts \/ i > starts + 1
      BY <1>1, <3>1, <3>2, <3>5
    <3> QED
      BY <1>1, <3>3, <3>4, <3>5
  <2>5. sessions'[starts'] = "open" /\ ~stopping'
    BY <1>1, <1>2, <2>1 DEF StopInv
  <2> QED
    BY <2>4, <2>5 DEF EarlierStopped
<1> QED
  BY <1>1, <1>2, <1>3 DEF StopInv

\* The first half of stop ends the loop it knows of.
LEMMA StopCancelKeeps ==
  ASSUME StopInv, StopCancel PROVE StopInv'
<1>1. /\ starts > 0 /\ stopping' = TRUE
      /\ tasks' = [tasks EXCEPT ![<<"loop", starts>>] = Idle]
      /\ UNCHANGED <<starts, sessions, overlap>>
  BY DEF StopCancel, Cancelled
<1>2. starts \in 1..MaxStarts /\ <<"loop", starts>> \in Tasks
  <2>1. starts \in 1..MaxStarts
    BY <1>1, ConfigAssumption DEF StopInv
  <2> QED
    BY <2>1, LoopIsTask
<1>3. tasks'[<<"loop", starts>>] = Idle /\ DOMAIN tasks' = Tasks
  BY <1>1, <1>2 DEF StopInv
<1>4. ASSUME NEW i \in 1..MaxStarts, i # starts
      PROVE  tasks'[<<"loop", i>>] = tasks[<<"loop", i>>]
  <2>1. <<"loop", i>> # <<"loop", starts>> /\ <<"loop", i>> \in Tasks
    BY <1>4, LoopIsTask
  <2> QED
    BY <1>1, <2>1 DEF StopInv
<1>5. ASSUME EarlierStopped PROVE EarlierStopped'
  BY <1>1, <1>2, <1>3, <1>4, <1>5 DEF EarlierStopped
<1> QED
  BY <1>1, <1>3, <1>5 DEF StopInv

\* The second half closes the session it knows of.
LEMMA StopCloseKeeps ==
  ASSUME StopInv, StopClose PROVE StopInv'
<1>1. /\ stopping /\ stopping' = FALSE /\ starts > 0
      /\ sessions' = [sessions EXCEPT ![starts] = "closed"]
      /\ UNCHANGED <<starts, tasks, overlap>>
  BY DEF StopClose, StopInv
<1>2. starts \in 1..MaxStarts /\ DOMAIN sessions' = 1..MaxStarts
  BY <1>1, ConfigAssumption DEF StopInv
<1>3. ASSUME EarlierStopped PROVE EarlierStopped'
  <2>1. tasks[<<"loop", starts>>] = Idle
    BY <1>1, <1>3 DEF EarlierStopped
  <2>2. sessions'[starts] = "closed" /\ \A i \in 1..MaxStarts : i # starts => sessions'[i] = sessions[i]
    BY <1>1, <1>2 DEF StopInv
  <2> QED
    BY <1>1, <1>2, <1>3, <2>1, <2>2 DEF EarlierStopped
<1> QED
  BY <1>1, <1>2, <1>3 DEF StopInv

\* Every step keeps the invariant.
LEMMA StopStep == StopInv /\ [Next]_vars => StopInv'
<1> SUFFICES ASSUME StopInv, [Next]_vars PROVE StopInv'
  OBVIOUS
<1>0. DOMAIN tasks = Tasks /\ Callers \subseteq Tasks
  BY DEF StopInv, Tasks
<1>1. CASE Start
  <2>1. /\ StartEffect /\ UNCHANGED stopping
        /\ tasks' = [tasks EXCEPT ![<<"loop", starts + 1>>] = Waiting("sleep", None, None)]
    BY <1>1 DEF Start
  <2>2. \A i \in 1..MaxStarts : i # starts + 1 => tasks'[<<"loop", i>>] = tasks[<<"loop", i>>]
    BY <1>0, <2>1, LoopIsTask
  <2>3. DOMAIN tasks' = Tasks
    BY <1>0, <2>1
  <2> QED
    BY <2>1, <2>2, <2>3, StartKeeps
<1>2. CASE StopCancel
  BY <1>2, StopCancelKeeps
<1>3. CASE StopClose
  BY <1>3, StopCloseKeeps
<1>4. ASSUME NEW c \in Callers, CallFirstUse(c) PROVE StopInv'
  <2>1. CASE starts = 0
    <3>1. /\ StartEffect /\ UNCHANGED stopping
          /\ tasks' = [tasks EXCEPT ![c] = Waiting("first", None, None),
                                    ![<<"loop", 1>>] = Waiting("sleep", None, None)]
      BY <1>4, <2>1 DEF CallFirstUse
    <3>2. \A i \in 1..MaxStarts : i # starts + 1 => tasks'[<<"loop", i>>] = tasks[<<"loop", i>>]
      BY <1>0, <2>1, <3>1, LoopIsTask
    <3>3. DOMAIN tasks' = Tasks
      BY <1>0, <3>1
    <3> QED
      BY <3>1, <3>2, <3>3, StartKeeps
  <2>2. CASE starts # 0
    <3>1. UNCHANGED resources /\ tasks' = [tasks EXCEPT ![c] = Waiting("first", None, None)]
      BY <1>4, <2>2 DEF CallFirstUse, resources
    <3> QED
      BY <1>0, <3>1, OneTaskMoves, LoopsStayIdleKeeps
  <2> QED
    BY <2>1, <2>2
<1>5. ASSUME NEW c \in Callers, CallHeader(c) PROVE StopInv'
  <2>1. PICK h : tasks' = [tasks EXCEPT ![c] = Waiting("header", h, None)]
    BY <1>5 DEF CallHeader
  <2>2. UNCHANGED resources
    BY <1>5 DEF CallHeader
  <2> QED
    BY <1>0, <2>1, <2>2, OneTaskMoves, LoopsStayIdleKeeps
<1>6. ASSUME NEW c \in Callers, FirstUse(c) \/ FetchHeader(c) PROVE StopInv'
  <2>1. UNCHANGED resources /\ tasks' = [tasks EXCEPT ![c] = Idle]
    BY <1>6 DEF FirstUse, FetchHeader
  <2> QED
    BY <1>0, <2>1, OneTaskMoves, LoopsStayIdleKeeps
<1>7. ASSUME NEW t \in Tasks, CallSync(t) PROVE StopInv'
  <2>1. UNCHANGED resources /\ tasks' = [tasks EXCEPT ![t] = Waiting("latest", None, None)]
    BY <1>7 DEF CallSync
  <2>2. t \in Callers \/ tasks[t] # Idle
    BY <1>7, IdleFacts DEF CallSync
  <2> QED
    BY <1>0, <2>1, <2>2, OneTaskMoves, LoopsStayIdleKeeps
<1>8. ASSUME NEW t \in Tasks, SyncHeight(t) PROVE StopInv'
  <2>1. UNCHANGED resources /\ \E x : tasks' = [tasks EXCEPT ![t] = x]
    BY <1>8 DEF SyncHeight
  <2>2. tasks[t] # Idle
    BY <1>8, IdleFacts DEF SyncHeight
  <2>3. PICK x : tasks' = [tasks EXCEPT ![t] = x]
    BY <2>1
  <2> QED
    BY <1>0, <2>1, <2>2, <2>3, OneTaskMoves, LoopsStayIdleKeeps
<1>9. ASSUME NEW t \in Tasks, SyncHeader(t) PROVE StopInv'
  <2>1. UNCHANGED resources /\ \E x : tasks' = [tasks EXCEPT ![t] = x]
    BY <1>9 DEF SyncHeader
  <2>2. tasks[t] # Idle
    BY <1>9, IdleFacts DEF SyncHeader
  <2>3. PICK x : tasks' = [tasks EXCEPT ![t] = x]
    BY <2>1
  <2> QED
    BY <1>0, <2>1, <2>2, <2>3, OneTaskMoves, LoopsStayIdleKeeps
<1>10. CASE Give \/ Import \/ NewBlock \/ UNCHANGED vars
  <2>1. UNCHANGED <<resources, tasks>>
    BY <1>10 DEF Give, Import, NewBlock, vars, resources
  <2>2. LoopsStayIdle
    BY <1>0, <2>1 DEF LoopsStayIdle
  <2> QED
    BY <2>2, LoopsStayIdleKeeps
<1> QED
  BY <1>1, <1>2, <1>3, <1>4, <1>5, <1>6, <1>7, <1>8, <1>9, <1>10 DEF Next

\* Nothing is open before the first start.
LEMMA StopInit == Init => StopInv
<1> SUFFICES ASSUME Init PROVE StopInv
  OBVIOUS
<1>1. \A i \in 1..MaxStarts : sessions[i] = "none" /\ tasks[<<"loop", i>>] = Idle
  BY LoopIsTask DEF Init
<1> QED
  BY <1>1, ConfigAssumption DEF Init, StopInv, EarlierStopped

\* A client that is stopped before it is started again holds nothing.
THEOREM StoppedHoldNothing == Spec => []StoppedHoldsNothing
<1>1. StopInv => StoppedHoldsNothing
  <2> SUFFICES ASSUME StopInv, ~overlap, starts > 0, sessions[starts] = "closed"
               PROVE  /\ \A i \in 1..MaxStarts : tasks[<<"loop", i>>] = Idle
                      /\ "open" \notin Range(sessions)
    BY DEF StoppedHoldsNothing
  <2>1. EarlierStopped /\ DOMAIN sessions = 1..MaxStarts /\ starts \in Nat
    BY DEF StopInv
  <2>2. ASSUME NEW i \in 1..MaxStarts
        PROVE  tasks[<<"loop", i>>] = Idle /\ sessions[i] # "open"
    BY <2>1 DEF EarlierStopped
  <2> QED
    BY <2>1, <2>2 DEF Range
<1> QED
  BY <1>1, StopInit, StopStep, PTL DEF Spec
=============================================================================
