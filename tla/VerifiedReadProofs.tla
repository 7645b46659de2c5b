------------------------- MODULE VerifiedReadProofs --------------------------
(***************************************************************************)
(* What get_verified returns and refuses, for every chain, every lag and   *)
(* whatever the API serves.  And, for every grove and every proof of it:   *)
(* one that verify_items_at_path accepts was checked down to the path      *)
(* asked for and gives only what the chain stores, and one the chain's     *)
(* prover makes is accepted.                                               *)
(***************************************************************************)
EXTENDS VerifiedRead, GroveProof, FiniteSetTheorems, WellFoundedInduction, TLAPS

Steps == {"idle", "latest", "oldest", "after", "poll", "search", "done"}

TypeOK ==
  /\ states \in Seq(Nat) /\ Len(states) >= 2
  /\ first \in Nat \ {0}
  /\ lag \in Nat
  /\ pc \in Steps
  /\ root \in Nat /\ height \in Nat
  /\ latest \in [height : Nat, root : Nat]
  /\ oldest \in Int
  /\ produced \in BOOLEAN
  /\ low \in Int /\ high \in Int
  /\ expired \in BOOLEAN
  /\ result \in Int
  /\ error \in {None} \cup Errors

\* A block makes a new state or leaves the one before, never an earlier one.
StatesGrow == \A i, j \in 1..Len(states) : i =< j => states[i] =< states[j]

\* What reading the latest header left, as the chain still has it.
LatestRead ==
  /\ latest.height \in 1..Latest /\ latest.root = AppHash(latest.height)
  /\ oldest = OldestAt(latest.height)

\* The proof was stale by it, and the oldest recent header is no later.
WasStale == latest.height - height > lag /\ latest.root # root

\* What each step that asks for a header knows of those read before.
Knows ==
  /\ pc \in {"oldest", "after", "poll", "search"} => LatestRead
  /\ pc = "oldest" => WasStale /\ oldest =< latest.height
  /\ pc \in {"after", "poll"} /\ WasStale =>
       oldest =< latest.height /\ AppHash(oldest) = root
  /\ pc = "search" =>
       /\ oldest =< low /\ low < high /\ high < latest.height
       /\ latest.height - height > lag /\ AppHash(low) = root
       /\ \A h \in (high + 1)..latest.height : AppHash(h) # root
  /\ pc # "done" => error = None
  /\ error = "out_of_range" => LatestRead
  /\ Returned => LatestRead /\ result >= 1

ReadInv ==
  TypeOK /\ StatesGrow /\ Knows /\ ReturnedIsCurrent /\ RefusedOnlyWhenStale

-----------------------------------------------------------------------------
\* Of two headers, the later one carries a state no smaller.
LEMMA HeadersGrow ==
  ASSUME TypeOK, StatesGrow, NEW i \in Int, NEW j \in Int, 1 =< i, i =< j, j =< Latest + 1
  PROVE  AppHash(i) =< AppHash(j) /\ AppHash(i) \in Nat /\ AppHash(j) \in Nat
<1>1. i \in 1..Len(states) /\ j \in 1..Len(states)
  BY DEF TypeOK, Latest
<1> QED
  BY <1>1 DEF TypeOK, StatesGrow, AppHash

\* Once a root was carried and no more, it never is again.
LEMMA NeverAgain ==
  ASSUME TypeOK, StatesGrow, NEW i \in Int, NEW j \in Int, 1 =< i, i =< j, j =< Latest + 1,
         AppHash(i) = root, AppHash(j) # root,
         NEW h \in Int, j =< h, h =< Latest + 1
  PROVE  AppHash(h) # root
<1>1. AppHash(i) =< AppHash(j) /\ AppHash(i) \in Nat /\ AppHash(j) \in Nat
  BY HeadersGrow
<1>2. AppHash(j) =< AppHash(h) /\ AppHash(h) \in Nat
  BY HeadersGrow
<1> QED
  BY <1>1, <1>2

\* The header the search reads is above low and not above high.
LEMMA MiddleBetween ==
  ASSUME low \in Int, high \in Int, low < high
  PROVE  Middle \in Int /\ low < Middle /\ Middle =< high
BY DEF Middle

-----------------------------------------------------------------------------
\* The reads before the first keep it.
LEMMA InitReadInv == Init => ReadInv
<1> SUFFICES ASSUME Init PROVE ReadInv
  OBVIOUS
<1>1. states \in Seq(Nat) /\ Len(states) = 2 /\ \A i \in 1..2 : states[i] = 0
  BY DEF Init
<1>2. TypeOK
  <2>1. produced \in BOOLEAN /\ expired \in BOOLEAN
    BY DEF Init
  <2>2. /\ first \in Nat \ {0} /\ lag \in Nat /\ pc \in Steps /\ root \in Nat /\ height \in Nat
        /\ latest \in [height : Nat, root : Nat] /\ oldest \in Int
        /\ low \in Int /\ high \in Int /\ result \in Int /\ error \in {None} \cup Errors
    BY LagsAssumption DEF Init, Steps, NoHeader
  <2> QED
    BY <1>1, <2>1, <2>2 DEF TypeOK
<1>3. StatesGrow
  BY <1>1 DEF StatesGrow
<1>4. Knows /\ ReturnedIsCurrent /\ RefusedOnlyWhenStale
  BY DEF Init, Knows, Returned, ReturnedIsCurrent, RefusedOnlyWhenStale, None
<1> QED
  BY <1>2, <1>3, <1>4 DEF ReadInv

\* What is known of the headers stays true of a chain that still has them.
LEMMA ChainKeeps ==
  ASSUME ReadInv, TypeOK', StatesGrow', UNCHANGED readVars, Latest' >= Latest,
         \A h \in 1..(Latest + 1) : AppHash(h)' = AppHash(h)
  PROVE  ReadInv'
<1> USE DEF AppHash
<1>0. TypeOK /\ Knows /\ ReturnedIsCurrent /\ RefusedOnlyWhenStale
  BY DEF ReadInv
<1>1. Latest \in Nat /\ Latest' \in Nat
  <2>1. TypeOK => Latest \in Nat
    BY DEF TypeOK, Latest
  <2>2. TypeOK' => Latest' \in Nat
    BY DEF TypeOK, Latest
  <2> QED
    BY <1>0, <2>1, <2>2
<1>2. UNCHANGED <<lag, pc, root, height, latest, oldest, low, high, result, error>>
  BY DEF readVars
<1>3. height \in Nat /\ lag \in Nat /\ oldest \in Int /\ low \in Int /\ high \in Int
        /\ result \in Int
  BY <1>0, <1>1 DEF TypeOK
<1>4. LatestRead => /\ LatestRead' /\ oldest = latest.height - lag + 1
                    /\ latest.height \in 1..Latest
                    /\ \A h \in 1..(latest.height + 1) : AppHash(h)' = AppHash(h)
  BY <1>0, <1>1, <1>2, <1>3 DEF LatestRead, OldestAt, AppHash
<1>5. WasStale' <=> WasStale
  BY <1>2 DEF WasStale
<1>6. Knows'
  <2>1. pc \in {"after", "poll"} => (WasStale => oldest =< latest.height /\ AppHash(oldest)' = root)
    <3> SUFFICES ASSUME pc \in {"after", "poll"}, WasStale
                 PROVE  oldest =< latest.height /\ AppHash(oldest)' = root
      OBVIOUS
    <3>1. oldest =< latest.height /\ AppHash(oldest) = root /\ LatestRead
      BY <1>0 DEF Knows
    <3>2. oldest >= 1 /\ latest.height \in Nat
      BY <1>2, <1>3, <1>4, <3>1 DEF WasStale
    <3> QED
      BY <1>2, <1>3, <1>4, <3>1, <3>2
  <2>2. pc = "search" => /\ AppHash(low)' = root
                         /\ \A h \in (high + 1)..latest.height : AppHash(h)' # root
    <3> SUFFICES ASSUME pc = "search"
                 PROVE  /\ AppHash(low)' = root
                        /\ \A h \in (high + 1)..latest.height : AppHash(h)' # root
      OBVIOUS
    <3>1. /\ oldest =< low /\ low < high /\ high < latest.height /\ LatestRead
          /\ latest.height - height > lag /\ AppHash(low) = root
          /\ \A h \in (high + 1)..latest.height : AppHash(h) # root
      BY <1>0 DEF Knows
    <3>2. low >= 1 /\ latest.height \in Nat
      BY <1>2, <1>3, <1>4, <3>1
    <3> QED
      BY <1>2, <1>3, <1>4, <3>1, <3>2
  <2> QED
    BY <1>0, <1>1, <1>2, <1>4, <1>5, <2>1, <2>2 DEF Knows, Returned, AppHash
<1>7. ReturnedIsCurrent'
  <2> SUFFICES ASSUME Returned' PROVE ReturnedIsCurrent'
    BY DEF ReturnedIsCurrent
  <2>1. Returned /\ LatestRead /\ result >= 1
    BY <1>0, <1>1, <1>2 DEF Knows, Returned
  <2>2. \A h \in (result + 1)..latest.height : AppHash(h)' = AppHash(h)
    BY <1>2, <1>3, <1>4, <2>1
  <2>3. AppHash(result)' = AppHash(result) /\ result =< Latest
    BY <1>0, <1>1, <1>2, <1>3, <2>1 DEF ReturnedIsCurrent
  <2> QED
    BY <1>0, <1>1, <1>2, <1>3, <2>1, <2>2, <2>3 DEF ReturnedIsCurrent, AppHash
<1>8. RefusedOnlyWhenStale'
  <2> SUFFICES ASSUME error = "out_of_range", height =< latest.height, AppHash(height + 1)' = root,
                      NEW h \in 1..latest.height, latest.height - (h - 1) =< lag
               PROVE  AppHash(h)' # root
    BY <1>2 DEF RefusedOnlyWhenStale, AppHash
  <2>1. LatestRead /\ latest.height \in Nat
    BY <1>0, <1>4 DEF Knows
  <2>2. AppHash(height + 1)' = AppHash(height + 1) /\ AppHash(h)' = AppHash(h)
    BY <1>2, <1>3, <1>4, <2>1
  <2> QED
    BY <1>0, <1>1, <2>2 DEF RefusedOnlyWhenStale
<1> QED
  BY <1>6, <1>7, <1>8 DEF ReadInv

\* A block leaves every header there is.
LEMMA ProduceKeeps ==
  ASSUME ReadInv, Produce
  PROVE  ReadInv'
<1>1. PICK s \in {states[Len(states)], states[Len(states)] + 1} : states' = Append(states, s)
  BY DEF Produce
<1>2. /\ TypeOK /\ StatesGrow /\ Len(states) \in Nat /\ Len(states) >= 2
      /\ \A i \in 1..Len(states) : states[i] \in Nat
  BY DEF ReadInv, TypeOK
<1>3. s \in Nat /\ s >= states[Len(states)]
  BY <1>1, <1>2
<1>4. /\ states' \in Seq(Nat) /\ Len(states') = Len(states) + 1
      /\ \A i \in 1..Len(states) : states'[i] = states[i]
      /\ states'[Len(states) + 1] = s
  BY <1>1, <1>2, <1>3 DEF TypeOK
<1>5. UNCHANGED <<first, readVars>>
  BY DEF Produce
<1>6. TypeOK'
  BY <1>2, <1>4, <1>5 DEF TypeOK, readVars
<1>7. StatesGrow'
  <2> SUFFICES ASSUME NEW i \in 1..Len(states'), NEW j \in 1..Len(states'), i =< j
               PROVE  states'[i] =< states'[j]
    BY DEF StatesGrow
  <2>1. \A k \in 1..Len(states) : states[k] =< states[Len(states)]
    BY <1>2 DEF StatesGrow
  <2>2. CASE j \in 1..Len(states)
    <3>1. i \in 1..Len(states)
      BY <1>2, <2>2
    <3>2. states[i] =< states[j] /\ states'[i] = states[i] /\ states'[j] = states[j]
      BY <1>2, <1>4, <2>2, <3>1 DEF StatesGrow
    <3> QED
      BY <3>2
  <2>3. CASE j = Len(states) + 1 /\ i \in 1..Len(states)
    BY <1>2, <1>3, <1>4, <2>1, <2>3
  <2>4. CASE j = Len(states) + 1 /\ i = Len(states) + 1
    BY <1>3, <1>4, <2>4
  <2> QED
    BY <1>2, <1>4, <2>2, <2>3, <2>4
<1>8. Latest' = Latest + 1 /\ Latest \in Nat /\ \A h \in 1..(Latest + 1) : AppHash(h)' = AppHash(h)
  BY <1>2, <1>4 DEF Latest, AppHash
<1> QED
  BY <1>5, <1>6, <1>7, <1>8, ChainKeeps

\* The node pruned a header; the chain's are what they were.
LEMMA PruneKeeps ==
  ASSUME ReadInv, Prune
  PROVE  ReadInv'
<1>1. UNCHANGED <<states, readVars>> /\ first' = first + 1
  BY DEF Prune
<1>2. TypeOK /\ StatesGrow
  BY DEF ReadInv
<1>3. TypeOK'
  BY <1>1, <1>2 DEF TypeOK, readVars
<1>4. StatesGrow'
  BY <1>1, <1>2 DEF StatesGrow
<1>5. Latest' >= Latest /\ \A h \in 1..(Latest + 1) : AppHash(h)' = AppHash(h)
  <2>1. Latest \in Nat
    BY <1>2 DEF TypeOK, Latest
  <2> QED
    BY <1>1, <2>1 DEF Latest, AppHash
<1> QED
  BY <1>1, <1>3, <1>4, <1>5, ChainKeeps

-----------------------------------------------------------------------------
\* A step of the read changes no header.
Reading == UNCHANGED <<chainVars, lag, root, height>>

\* A read that ends with no header left, or a mismatch, leaves nothing to say.
LEMMA RaisesKeeps ==
  ASSUME ReadInv, TypeOK', Reading, pc' = "done", error' \in {"mismatch", "no_header"}
  PROVE  ReadInv'
<1>1. StatesGrow'
  BY DEF ReadInv, StatesGrow, Reading, chainVars
<1>2. Knows' /\ ReturnedIsCurrent' /\ RefusedOnlyWhenStale'
  BY DEF Knows, Returned, ReturnedIsCurrent, RefusedOnlyWhenStale, None
<1> QED
  BY <1>1, <1>2 DEF ReadInv

\* One that goes on has returned and refused nothing.
LEMMA GoesKeeps ==
  ASSUME ReadInv, TypeOK', Reading, error' = None, pc' # "done", Knows'
  PROVE  ReadInv'
<1>1. StatesGrow'
  BY DEF ReadInv, StatesGrow, Reading, chainVars
<1>2. ReturnedIsCurrent' /\ RefusedOnlyWhenStale'
  BY DEF Returned, ReturnedIsCurrent, RefusedOnlyWhenStale, None
<1> QED
  BY <1>1, <1>2 DEF ReadInv

\* One that returns a recent header.
LEMMA ReturnsKeeps ==
  ASSUME ReadInv, TypeOK', Reading, pc' = "done", error' = None,
         UNCHANGED <<latest, oldest>>, LatestRead,
         result' >= 1, result' =< Latest, AppHash(result') = root,
         latest.height - (result' - 1) =< lag \/ result' = latest.height,
         result' # height + 1 => \A h \in (result' + 1)..latest.height : AppHash(h) # root
  PROVE  ReadInv'
<1> USE DEF Reading, chainVars
<1>1. StatesGrow'
  BY DEF ReadInv, StatesGrow
<1>2. LatestRead'
  BY DEF LatestRead, OldestAt, AppHash, Latest
<1>3. Knows'
  BY <1>2 DEF Knows, None
<1>4. ReturnedIsCurrent'
  BY DEF ReturnedIsCurrent, AppHash, Latest
<1>5. RefusedOnlyWhenStale'
  BY DEF RefusedOnlyWhenStale, None
<1> QED
  BY <1>1, <1>3, <1>4, <1>5 DEF ReadInv

\* One that refuses because no recent header carries the root.
LEMMA RefusesKeeps ==
  ASSUME ReadInv, TypeOK', Reading, pc' = "done", error' = "out_of_range", LatestRead',
         height =< latest'.height /\ AppHash(height + 1) = root =>
           \A h \in 1..latest'.height : latest'.height - (h - 1) =< lag => AppHash(h) # root
  PROVE  ReadInv'
<1> USE DEF Reading, chainVars
<1>1. StatesGrow'
  BY DEF ReadInv, StatesGrow
<1>2. Knows' /\ ReturnedIsCurrent'
  BY DEF Knows, Returned, ReturnedIsCurrent, None
<1>3. RefusedOnlyWhenStale'
  BY DEF RefusedOnlyWhenStale, AppHash
<1> QED
  BY <1>1, <1>2, <1>3 DEF ReadInv

\* Every step of the read keeps the shapes.
LEMMA ReadTypes ==
  ASSUME TypeOK, Request \/ Answered \/ Unread \/ PollFails \/ Expire
  PROVE  TypeOK' /\ (Request \/ Reading)
<1> USE DEF Reading, chainVars, Returns, Raises, Goes
<1>1. CASE Request
  <2>1. states[Len(states)] \in Nat
    BY DEF TypeOK
  <2>2. root' \in Nat /\ height' \in Nat
    BY <1>1, <2>1, MaxHeightAssumption DEF Request
  <2> QED
    BY <1>1, <2>2 DEF Request, TypeOK, Steps
<1>2. CASE Unread \/ PollFails
  BY <1>2 DEF Unread, PollFails, TypeOK, Steps, Errors
<1>3. CASE Expire
  BY <1>3 DEF Expire, TypeOK
<1>4. CASE ReadLatest
  <2>1. Latest \in Nat /\ AppHash(Latest) \in Nat
    BY DEF TypeOK, Latest, AppHash
  <2>2. latest' \in [height : Nat, root : Nat] /\ oldest' \in Int
    BY <1>4, <2>1 DEF ReadLatest, OldestAt, TypeOK
  <2>3. pc' \in Steps /\ result' \in Int /\ error' \in {None} \cup Errors
    BY <1>4 DEF ReadLatest, TypeOK, Steps, Errors
  <2> QED
    BY <1>4, <2>2, <2>3 DEF ReadLatest, TypeOK
<1>5. CASE ReadOldest
  BY <1>5 DEF ReadOldest, TypeOK, Steps, Errors
<1>6. CASE ReadAfter
  <2>1. /\ pc' \in Steps /\ result' \in Int /\ error' \in {None} \cup Errors
        /\ low' \in Int /\ high' \in Int
    <3>1. /\ latest.height \in Nat /\ oldest \in Int /\ height \in Nat
          /\ low \in Int /\ high \in Int /\ result \in Int
          /\ error \in {None} \cup Errors
      BY DEF TypeOK
    <3>2. CASE Found(height + 1)
      BY <3>1, <3>2 DEF Found, Steps, Errors
    <3>3. CASE Raises("mismatch") /\ UNCHANGED <<low, high>>
      BY <3>1, <3>3 DEF Steps, Errors
    <3> QED
      BY <1>6, <3>2, <3>3 DEF ReadAfter
  <2> QED
    BY <1>6, <2>1 DEF ReadAfter, TypeOK
<1>7. CASE AfterMissing
  BY <1>7 DEF AfterMissing, TypeOK, Steps, Errors
<1>8. CASE Poll
  <2>1. produced' \in BOOLEAN
    <3>1. produced \in BOOLEAN /\ Latest \in Nat /\ height \in Nat
      BY DEF TypeOK, Latest
    <3>2. produced' = produced \/ produced' = (Latest >= height + 1)
      BY <1>8 DEF Poll
    <3>3. \A p : p = (Latest >= height + 1) => p \in BOOLEAN
      BY <3>1
    <3> QED
      BY <3>1, <3>2, <3>3
  <2>2. pc' \in Steps /\ result' \in Int /\ error' \in {None} \cup Errors
    BY <1>8 DEF Poll, TypeOK, Steps, Errors
  <2>3. UNCHANGED <<states, first, lag, root, height, latest, oldest, low, high, expired>>
    BY <1>8 DEF Poll
  <2> QED
    BY <2>1, <2>2, <2>3 DEF TypeOK
<1>9. CASE Search
  <2>1. Middle \in Int
    BY DEF Middle, TypeOK
  <2>2. /\ pc' \in Steps /\ result' \in Int /\ error' \in {None} \cup Errors
        /\ low' \in Int /\ high' \in Int
    BY <1>9, <2>1 DEF Search, Narrow, TypeOK, Steps, Errors
  <2> QED
    BY <1>9, <2>2 DEF Search, TypeOK
<1> QED
  BY <1>1, <1>2, <1>3, <1>4, <1>5, <1>6, <1>7, <1>8, <1>9 DEF Answered

\* The step knows what the headers read before say, and its numbers.
LEMMA Known ==
  ASSUME ReadInv
  PROVE  /\ TypeOK /\ StatesGrow /\ Knows
         /\ root \in Nat /\ height \in Nat /\ lag \in Nat /\ Latest \in Nat
         /\ LatestRead => /\ latest.height \in Int /\ 1 =< latest.height
                          /\ latest.height =< Latest /\ oldest = latest.height - lag + 1
                          /\ AppHash(latest.height) = latest.root
<1>1. TypeOK /\ StatesGrow /\ Knows
  BY DEF ReadInv
<1>2. root \in Nat /\ height \in Nat /\ lag \in Nat /\ Latest \in Nat
  BY <1>1 DEF TypeOK, Latest
<1> QED
  BY <1>1, <1>2 DEF LatestRead, OldestAt

\* The latest header: recent, stale, or out of range.
LEMMA ReadLatestKeeps ==
  ASSUME ReadInv, TypeOK', Reading, ReadLatest
  PROVE  ReadInv'
<1>1. /\ Knows /\ height \in Nat /\ lag \in Nat /\ Latest \in Nat /\ Latest >= 1
      /\ pc = "latest" /\ error = None
  <2>1. Latest >= 1
    BY DEF ReadInv, TypeOK, Latest
  <2> QED
    BY <2>1, Known DEF Knows, ReadLatest
<1>2. latest' = [height |-> Latest, root |-> AppHash(Latest)] /\ oldest' = Latest - lag + 1
  BY DEF ReadLatest, OldestAt
<1>3. LatestRead'
  BY <1>1, <1>2 DEF LatestRead, OldestAt, AppHash, Latest, Reading, chainVars
<1>4. WasStale' <=> Stale(Latest)
  BY <1>2 DEF WasStale, Stale, Reading
<1>5. CASE height - Latest > lag \/ (Stale(Latest) /\ oldest' > Latest)
  <2>1. pc' = "done" /\ error' = "out_of_range"
    BY <1>5 DEF ReadLatest, Raises
  <2>2. height =< latest'.height =>
          \A h \in 1..latest'.height : ~(latest'.height - (h - 1) =< lag)
    BY <1>1, <1>2, <1>5
  <2> QED
    BY <1>3, <2>1, <2>2, RefusesKeeps
<1>6. CASE ~(height - Latest > lag) /\ Stale(Latest) /\ ~(oldest' > Latest)
  <2>1. pc' = "oldest" /\ error' = None
    BY <1>1, <1>6 DEF ReadLatest, Goes
  <2>2. oldest' =< latest'.height
    BY <1>1, <1>2, <1>6
  <2>3. Knows'
    BY <1>3, <1>4, <1>6, <2>1, <2>2 DEF Knows, Returned, None
  <2> QED
    BY <2>1, <2>3, GoesKeeps
<1>7. CASE ~(height - Latest > lag) /\ ~Stale(Latest)
  <2>1. pc' = "after" /\ error' = None
    BY <1>1, <1>7 DEF ReadLatest, Goes
  <2>2. Knows'
    BY <1>3, <1>4, <1>7, <2>1 DEF Knows, Returned, None
  <2> QED
    BY <2>1, <2>2, GoesKeeps
<1> QED
  BY <1>5, <1>6, <1>7

\* The oldest recent header decides whether a stale proof is current.
LEMMA ReadOldestKeeps ==
  ASSUME ReadInv, TypeOK', Reading, ReadOldest
  PROVE  ReadInv'
<1>1. /\ LatestRead /\ WasStale /\ oldest =< latest.height /\ error = None
      /\ UNCHANGED <<latest, oldest>>
  BY Known DEF Knows, ReadOldest
<1>2. /\ height \in Nat /\ lag \in Nat /\ Latest \in Nat
      /\ latest.height \in Int /\ 1 =< latest.height /\ latest.height =< Latest
      /\ oldest = latest.height - lag + 1 /\ TypeOK /\ StatesGrow
  BY <1>1, Known
<1>3. LatestRead' /\ (WasStale' <=> WasStale)
  BY <1>1 DEF LatestRead, WasStale, OldestAt, AppHash, Latest, Reading, chainVars
<1>4. CASE AppHash(oldest) = root
  <2>1. pc' = "after" /\ error' = None
    BY <1>1, <1>4 DEF ReadOldest, Goes
  <2>2. oldest' =< latest'.height /\ AppHash(oldest)' = root'
    BY <1>1, <1>4 DEF AppHash, Reading, chainVars
  <2>3. Knows'
    BY <1>3, <2>1, <2>2 DEF Knows, Returned, None
  <2> QED
    BY <2>1, <2>3, GoesKeeps
<1>5. CASE AppHash(oldest) # root
  <2>1. pc' = "done" /\ error' = "out_of_range"
    BY <1>5 DEF ReadOldest, Raises
  <2>2. ASSUME AppHash(height + 1) = root, NEW h \in 1..latest.height,
               latest.height - (h - 1) =< lag
        PROVE  AppHash(h) # root
    <3>1. oldest =< h /\ height + 1 =< oldest
      BY <1>1, <1>2, <2>2 DEF WasStale
    <3> QED
      BY <1>1, <1>2, <1>5, <2>2, <3>1, NeverAgain
  <2> QED
    BY <1>1, <1>3, <2>1, <2>2, RefusesKeeps
<1> QED
  BY <1>4, <1>5

\* The header after the proof's block: the newest that carries its root is
\* known, or searched for between two recent ones.
LEMMA ReadAfterKeeps ==
  ASSUME ReadInv, TypeOK', Reading, ReadAfter
  PROVE  ReadInv'
<1>1. /\ LatestRead /\ error = None /\ UNCHANGED <<latest, oldest>>
      /\ WasStale => oldest =< latest.height /\ AppHash(oldest) = root
  BY Known DEF Knows, ReadAfter
<1>2. /\ height \in Nat /\ lag \in Nat /\ Latest \in Nat
      /\ latest.height \in Int /\ 1 =< latest.height /\ latest.height =< Latest
      /\ oldest = latest.height - lag + 1 /\ AppHash(latest.height) = latest.root
  BY <1>1, Known
<1>3. height + 1 =< Latest
  BY DEF ReadAfter, Serves
<1>4. CASE AppHash(height + 1) # root
  BY <1>4, RaisesKeeps DEF ReadAfter, Raises
<1>5. CASE AppHash(height + 1) = root /\ latest.height >= height + 1 /\ latest.root = root
  <2>1. pc' = "done" /\ result' = latest.height /\ error' = None
    BY <1>1, <1>5 DEF ReadAfter, Found, Returns
  <2> QED
    BY <1>1, <1>2, <1>5, <2>1, ReturnsKeeps
<1>6. CASE /\ AppHash(height + 1) = root /\ ~(latest.height >= height + 1 /\ latest.root = root)
           /\ latest.height - height =< lag
  <2>1. pc' = "done" /\ result' = height + 1 /\ error' = None
    BY <1>1, <1>6 DEF ReadAfter, Found, Returns
  <2>2. latest.height - (result' - 1) =< lag
    BY <1>2, <1>6, <2>1
  <2> QED
    BY <1>1, <1>2, <1>3, <1>6, <2>1, <2>2, ReturnsKeeps
<1>7. CASE /\ AppHash(height + 1) = root /\ ~(latest.height >= height + 1 /\ latest.root = root)
           /\ ~(latest.height - height =< lag)
  <2>1. latest.height - height > lag /\ latest.root # root
    BY <1>2, <1>7
  <2>2. AppHash(oldest) = root /\ 1 =< oldest /\ oldest < latest.height
    BY <1>1, <1>2, <2>1 DEF WasStale
  <2>3. low' = oldest /\ high' = latest.height - 1 /\ error' = None
    BY <1>1, <1>7 DEF ReadAfter, Found, Goes, Returns
  <2>4. CASE low' < high'
    <3>1. pc' = "search"
      BY <1>7, <2>3, <2>4 DEF ReadAfter, Found, Goes
    <3>2. LatestRead'
      BY <1>1 DEF LatestRead, OldestAt, AppHash, Latest, Reading, chainVars
    <3>3. /\ oldest' =< low' /\ high' < latest'.height /\ latest'.height - height' > lag'
          /\ AppHash(low)' = root'
          /\ \A h \in (high' + 1)..latest'.height : AppHash(h)' # root'
      BY <1>1, <1>2, <2>1, <2>2, <2>3 DEF AppHash, Reading, chainVars
    <3>4. Knows'
      BY <2>3, <2>4, <3>1, <3>2, <3>3 DEF Knows, Returned, None
    <3> QED
      BY <2>3, <3>1, <3>4, GoesKeeps
  <2>5. CASE ~(low' < high')
    <3>1. pc' = "done" /\ result' = oldest
      BY <1>7, <2>3, <2>5 DEF ReadAfter, Found, Returns
    <3>2. oldest = latest.height - 1
      BY <1>2, <2>2, <2>3, <2>5
    <3>3. \A h \in (oldest + 1)..latest.height : AppHash(h) # root
      BY <1>2, <2>1, <3>2
    <3>4. latest.height - (result' - 1) =< lag /\ result' =< Latest /\ result' >= 1
      BY <1>2, <2>2, <3>1
    <3>5. AppHash(result') = root
      BY <2>2, <3>1
    <3> QED
      BY <1>1, <2>3, <3>1, <3>3, <3>4, <3>5, ReturnsKeeps
  <2> QED
    BY <2>4, <2>5
<1> QED
  BY <1>4, <1>5, <1>6, <1>7

\* The search halves the range that holds the newest header with the root.
LEMMA SearchKeeps ==
  ASSUME ReadInv, TypeOK', Reading, Search
  PROVE  ReadInv'
<1>1. /\ LatestRead /\ error = None /\ UNCHANGED <<latest, oldest>>
      /\ oldest =< low /\ low < high /\ high < latest.height
      /\ latest.height - height > lag /\ AppHash(low) = root
      /\ \A h \in (high + 1)..latest.height : AppHash(h) # root
  BY Known DEF Knows, Search
<1>2. /\ height \in Nat /\ lag \in Nat /\ Latest \in Nat
      /\ latest.height \in Int /\ 1 =< latest.height /\ latest.height =< Latest
      /\ oldest = latest.height - lag + 1 /\ TypeOK /\ StatesGrow
  BY <1>1, Known
<1>3. low \in Int /\ high \in Int /\ 1 =< low
  <2>1. low \in Int /\ high \in Int
    BY <1>2 DEF TypeOK
  <2> QED
    BY <1>1, <1>2, <2>1
<1>4. Middle \in Int /\ low < Middle /\ Middle =< high
  BY <1>1, <1>3, MiddleBetween
<1>5. /\ low' \in Int /\ high' \in Int /\ low =< low' /\ low' =< high' /\ high' =< high
      /\ AppHash(low') = root
      /\ \A h \in (high' + 1)..latest.height : AppHash(h) # root
  <2>1. CASE AppHash(Middle) = root
    <3>1. low' = Middle /\ high' = high
      BY <2>1 DEF Search, Narrow
    <3> QED
      BY <1>1, <1>3, <1>4, <2>1, <3>1
  <2>2. CASE AppHash(Middle) # root
    <3>1. high' = Middle - 1 /\ low' = low
      BY <2>2 DEF Search, Narrow
    <3>2. ASSUME NEW h \in Middle..latest.height PROVE AppHash(h) # root
      BY <1>1, <1>2, <1>3, <1>4, <2>2, <3>2, NeverAgain
    <3> QED
      BY <1>1, <1>3, <1>4, <3>1, <3>2
  <2> QED
    BY <2>1, <2>2
<1>6. CASE low' < high'
  <2>1. pc' = "search" /\ error' = None
    BY <1>1, <1>6 DEF Search, Goes
  <2>2. LatestRead'
    BY <1>1 DEF LatestRead, OldestAt, AppHash, Latest, Reading, chainVars
  <2>3. /\ oldest' =< low' /\ high' < latest'.height /\ latest'.height - height' > lag'
        /\ AppHash(low)' = root'
    BY <1>1, <1>2, <1>3, <1>5 DEF AppHash, Reading, chainVars
  <2>4. \A h \in (high' + 1)..latest'.height : AppHash(h)' # root'
    BY <1>1, <1>5 DEF AppHash, Reading, chainVars
  <2>5. Knows'
    BY <1>6, <2>1, <2>2, <2>3, <2>4 DEF Knows, Returned, None
  <2> QED
    BY <2>1, <2>5, GoesKeeps
<1>7. CASE ~(low' < high')
  <2>1. pc' = "done" /\ result' = low' /\ error' = None
    BY <1>1, <1>7 DEF Search, Returns
  <2>2. latest.height - (result' - 1) =< lag /\ result' =< Latest /\ result' >= 1
    BY <1>1, <1>2, <1>3, <1>5, <2>1
  <2>3. AppHash(result') = root /\ \A h \in (result' + 1)..latest.height : AppHash(h) # root
    <3>1. high' = low'
      BY <1>5, <1>7
    <3> QED
      BY <1>5, <2>1, <3>1
  <2> QED
    BY <1>1, <2>1, <2>2, <2>3, ReturnsKeeps
<1> QED
  BY <1>6, <1>7

\* What the other steps of the read learn is nothing new.
LEMMA OtherReadsKeep ==
  ASSUME ReadInv, TypeOK', Reading,
         Unread \/ PollFails \/ AfterMissing \/ Poll \/ Expire
  PROVE  ReadInv'
<1> USE DEF Raises, Goes
<1>1. Knows
  BY DEF ReadInv
<1>2. CASE pc' = "done" /\ error' = "no_header"
  BY <1>2, RaisesKeeps
<1>3. CASE Expire \/ (pc' \in {"after", "poll"} /\ (AfterMissing \/ Poll))
  <2>1. /\ pc \in {"after", "poll"} /\ pc' \in {"after", "poll"}
        /\ UNCHANGED <<latest, oldest, error>>
    BY <1>3 DEF Expire, AfterMissing, Poll
  <2>2. error' = None
    BY <1>1, <2>1 DEF Knows
  <2>3. LatestRead' /\ (WasStale' <=> WasStale)
    BY <1>1, <2>1 DEF Knows, LatestRead, WasStale, OldestAt, AppHash, Latest, Reading, chainVars
  <2>4. Knows'
    BY <1>1, <2>1, <2>2, <2>3 DEF Knows, Returned, None, AppHash, Reading, chainVars
  <2> QED
    BY <2>1, <2>2, <2>4, GoesKeeps
<1> QED
  BY <1>2, <1>3 DEF Unread, PollFails, AfterMissing, Poll

\* A call starts with nothing read.
LEMMA RequestKeeps ==
  ASSUME ReadInv, TypeOK', Request
  PROVE  ReadInv'
<1>1. /\ UNCHANGED <<states, latest, oldest, result, error>> /\ pc = "idle" /\ pc' = "latest"
      /\ Knows /\ StatesGrow
  BY DEF Request, ReadInv, chainVars
<1>2. error' = None
  BY <1>1 DEF Knows
<1>3. Knows' /\ ReturnedIsCurrent' /\ RefusedOnlyWhenStale'
  BY <1>1, <1>2 DEF Knows, Returned, ReturnedIsCurrent, RefusedOnlyWhenStale, None
<1>4. StatesGrow'
  BY <1>1 DEF StatesGrow
<1> QED
  BY <1>3, <1>4 DEF ReadInv

\* Every step keeps it.
LEMMA NextReadInv == ReadInv /\ [Next]_vars => ReadInv'
<1> SUFFICES ASSUME ReadInv, [Next]_vars PROVE ReadInv'
  OBVIOUS
<1>1. TypeOK /\ StatesGrow
  BY DEF ReadInv
<1>2. CASE UNCHANGED vars
  <2>1. TypeOK' /\ StatesGrow'
    BY <1>1, <1>2 DEF TypeOK, StatesGrow, vars, chainVars, readVars
  <2>2. Latest' >= Latest /\ \A h \in 1..(Latest + 1) : AppHash(h)' = AppHash(h)
    <3>1. Latest \in Nat
      BY <1>1 DEF TypeOK, Latest
    <3> QED
      BY <1>2, <3>1 DEF vars, chainVars, Latest, AppHash
  <2> QED
    BY <1>2, <2>1, <2>2, ChainKeeps DEF vars
<1>3. CASE Request
  BY <1>1, <1>3, ReadTypes, RequestKeeps
<1>4. CASE Answered \/ Unread \/ PollFails \/ Expire
  <2>1. Reading
    BY <1>4 DEF Reading, Answered, Unread, PollFails, Expire, ReadLatest, ReadOldest, ReadAfter,
       AfterMissing, Poll, Search
  <2>2. TypeOK'
    BY <1>1, <1>4, ReadTypes
  <2> QED
    BY <1>4, <2>1, <2>2, ReadLatestKeeps, ReadOldestKeeps, ReadAfterKeeps, SearchKeeps,
       OtherReadsKeep DEF Answered
<1> QED
  BY <1>2, <1>3, <1>4, ProduceKeeps, PruneKeeps DEF Next

\* What is known of the headers read holds in every reachable state.
THEOREM ReadInvariant == Spec => []ReadInv
BY InitReadInv, NextReadInv, PTL DEF Spec

\* The chain's and the read's variables keep their shapes.
THEOREM ReadTypeCorrect == Spec => []TypeOK
<1>1. ReadInv => TypeOK
  BY DEF ReadInv
<1> QED
  BY <1>1, ReadInvariant, PTL

\* A value is returned only with a header that carries its root and was recent
\* when the latest was read, the newest there is of those the client looked for
\* (data.get_verified).
THEOREM WhatIsReturnedIsCurrent == Spec => []ReturnedIsCurrent
<1>1. ReadInv => ReturnedIsCurrent
  BY DEF ReadInv
<1> QED
  BY <1>1, ReadInvariant, PTL

\* One look at the oldest recent header decides for all of them: a proof that
\* tells the truth about its height is refused only when none carries its root.
THEOREM OnlyStaleIsRefused == Spec => []RefusedOnlyWhenStale
<1>1. ReadInv => RefusedOnlyWhenStale
  BY DEF ReadInv
<1> QED
  BY <1>1, ReadInvariant, PTL

-----------------------------------------------------------------------------

(* The frames of a proof *)

\* A sequence of n elements, and a layer's frame.
OfLength(s, n) == Len(s) = n /\ s = [i \in 1..n |-> s[i]]
AFrame(f) ==
  f = [path |-> f.path, root |-> f.root, entries |-> f.entries, next |-> f.next,
       consumed |-> f.consumed]

\* Where the verification of the layers is: the frames go down the path asked
\* for, and what a frame consumed was checked down to the path's end.
OnPath(i) ==
  /\ AFrame(frames[i]) /\ frames[i].path = SubSeq(request.path, 1, i - 1)
  /\ frames[i].consumed # {} =>
       \A j \in i..Len(request.path) : SubSeq(request.path, 1, j) \in checked

GroveAt ==
  /\ request \in Requests /\ Descends(request.path)
  /\ Len(frames) \in 1..(Len(request.path) + 1)
  /\ OfLength(frames, Len(frames))
  /\ \A i \in 1..Len(frames) : OnPath(i)

GroveInv ==
  /\ request \in Requests
  /\ outcome \in {"envelope", "layers", "refused", "verified"}
  /\ outcome = "envelope" => frames = << >>
  /\ outcome = "layers" => GroveAt
  /\ outcome = "verified" => CheckedToPath

\* A request's path.
LEMMA PathFacts ==
  ASSUME NEW r \in Requests
  PROVE  /\ r.path \in Seq(1..2) /\ r.path # << >> /\ Len(r.path) \in Nat \ {0}
         /\ \A i \in 0..Len(r.path) : Len(SubSeq(r.path, 1, i)) = i /\ SubSeq(r.path, 1, i) \in Seq(1..2)
         /\ SubSeq(r.path, 1, 0) = << >> /\ SubSeq(r.path, 1, Len(r.path)) = r.path
         /\ \A i \in 1..Len(r.path) :
              Append(SubSeq(r.path, 1, i - 1), r.path[i]) = SubSeq(r.path, 1, i)
<1>1. r.path \in Seq(1..2) /\ r.path # << >>
  BY RequestsAssumption, GroveAssumption
<1>2. \A i \in 1..Len(r.path) :
        Append(SubSeq(r.path, 1, i - 1), r.path[i]) = SubSeq(r.path, 1, i)
  BY <1>1
<1> QED
  BY <1>1, <1>2

\* A frame goes further.
LEMMA FurtherFacts ==
  ASSUME NEW f, NEW key, AFrame(f)
  PROVE  LET further == [f EXCEPT !.next = @ + 1]
         IN [further EXCEPT !.consumed = further.consumed \cup key]
              = [path |-> f.path, root |-> f.root, entries |-> f.entries, next |-> f.next + 1,
                 consumed |-> f.consumed \cup key]
<1> DEFINE further == [f EXCEPT !.next = @ + 1]
<1>1. \E p, r, e, m, c :
        f = [path |-> p, root |-> r, entries |-> e, next |-> m, consumed |-> c]
  BY DEF AFrame
<1>2. further = [path |-> f.path, root |-> f.root, entries |-> f.entries, next |-> f.next + 1,
                 consumed |-> f.consumed]
  BY <1>1
<1>3. [further EXCEPT !.consumed = further.consumed \cup key]
        = [path |-> f.path, root |-> f.root, entries |-> f.entries, next |-> f.next + 1,
           consumed |-> f.consumed \cup key]
  <2> HIDE DEF further
  <2> QED
    BY <1>2
<1> QED
  BY <1>3

\* A sequence with another last element.
Replaces(x, fs, n, d) == x = [fs EXCEPT ![n] = d]

\* What it has.
LEMMA LastReplaced ==
  ASSUME NEW fs, NEW n \in Nat \ {0}, OfLength(fs, n), NEW d, NEW x, Replaces(x, fs, n, d)
  PROVE  OfLength(x, n) /\ (\A i \in 1..(n - 1) : x[i] = fs[i]) /\ x[n] = d
<1>1. DOMAIN fs = 1..n
  BY DEF OfLength
<1>2. x = [i \in 1..n |-> IF i = n THEN d ELSE fs[i]]
  BY <1>1 DEF Replaces
<1>3. OfLength(x, n)
  BY <1>2 DEF OfLength
<1>4. \A i \in 1..n : x[i] = IF i = n THEN d ELSE fs[i]
  BY <1>2
<1>5. n \in 1..n /\ \A i \in 1..(n - 1) : i \in 1..n /\ i # n
  OBVIOUS
<1>6. x[n] = d /\ \A i \in 1..(n - 1) : x[i] = fs[i]
  BY <1>4, <1>5, Zenon
<1> QED
  BY <1>3, <1>6

\* The frames once the last went further.
LEMMA AdvanceFacts ==
  ASSUME NEW fs, NEW n \in Nat \ {0}, OfLength(fs, n), AFrame(fs[n]), NEW key
  PROVE  LET x == Advance(fs, key)
         IN /\ OfLength(x, n)
            /\ \A i \in 1..(n - 1) : x[i] = fs[i]
            /\ AFrame(x[n]) /\ x[n].path = fs[n].path
            /\ x[n].root = fs[n].root /\ x[n].entries = fs[n].entries
            /\ x[n].next = fs[n].next + 1 /\ x[n].consumed = fs[n].consumed \cup key
<1> DEFINE further == [fs[n] EXCEPT !.next = @ + 1]
           done == [further EXCEPT !.consumed = further.consumed \cup key]
           x == Advance(fs, key)
<1>1. x = [fs EXCEPT ![n] = done]
  BY DEF Advance, Last, OfLength
<1>2. done = [path |-> fs[n].path, root |-> fs[n].root, entries |-> fs[n].entries,
              next |-> fs[n].next + 1, consumed |-> fs[n].consumed \cup key]
  BY FurtherFacts, Zenon
<1> HIDE DEF done
<1>3. /\ AFrame(done) /\ done.path = fs[n].path
      /\ done.root = fs[n].root /\ done.entries = fs[n].entries
      /\ done.next = fs[n].next + 1 /\ done.consumed = fs[n].consumed \cup key
  BY <1>2 DEF AFrame
<1> HIDE DEF x
<1>4. OfLength(x, n) /\ (\A i \in 1..(n - 1) : x[i] = fs[i]) /\ x[n] = done
  <2>1. Replaces(x, fs, n, done)
    BY <1>1 DEF Replaces
  <2> QED
    BY <2>1, LastReplaced
<1>5. /\ AFrame(x[n]) /\ x[n].path = fs[n].path
      /\ x[n].root = fs[n].root /\ x[n].entries = fs[n].entries
      /\ x[n].next = fs[n].next + 1 /\ x[n].consumed = fs[n].consumed \cup key
  BY <1>3, <1>4
<1> QED
  BY <1>4, <1>5 DEF x

\* The frames with another layer's.
LEMMA OpenFacts ==
  ASSUME NEW p, Open(p), NEW n \in Nat, OfLength(frames, n)
  PROVE  /\ OfLength(frames', n + 1)
         /\ \A i \in 1..n : frames'[i] = frames[i]
         /\ AFrame(frames'[n + 1]) /\ frames'[n + 1].path = p
         /\ frames'[n + 1].consumed = {}
         /\ \E l \in LayersAt(p) : frames'[n + 1] = Frame(p, l)
<1>1. PICK l \in LayersAt(p) : frames' = Append(frames, Frame(p, l))
  BY DEF Open
<1> DEFINE f == Frame(p, l)
           T == {frames[i] : i \in 1..n} \cup {f}
<1>2. AFrame(f) /\ f.path = p /\ f.consumed = {}
  BY DEF Frame, AFrame
<1>3. frames \in Seq(T) /\ f \in T /\ Len(frames) = n
  BY DEF OfLength
<1> HIDE DEF T, f
<1>4. frames' = Append(frames, f)
  BY <1>1 DEF f
<1>5. OfLength(frames', n + 1) /\ (\A i \in 1..n : frames'[i] = frames[i]) /\ frames'[n + 1] = f
  BY <1>3, <1>4 DEF OfLength
<1>6. \E k \in LayersAt(p) : frames'[n + 1] = Frame(p, k)
  BY <1>5 DEF f
<1> QED
  BY <1>2, <1>5, <1>6

\* The layer of the envelope's root is the first frame.
LEMMA EnvelopeKeeps ==
  ASSUME GroveInv, CheckEnvelope PROVE GroveInv'
<1>1. CASE options /\ Descends(request.path)
  <2>1. /\ Open(<< >>) /\ outcome' = "layers" /\ UNCHANGED <<request, shape, checked>>
        /\ frames = << >>
    BY <1>1 DEF CheckEnvelope, GroveInv
  <2>2. OfLength(frames, 0)
    BY <2>1 DEF OfLength
  <2>3. OfLength(frames', 1) /\ AFrame(frames'[1]) /\ frames'[1].path = << >> /\ frames'[1].consumed = {}
    BY <2>1, <2>2, OpenFacts
  <2>4. SubSeq(request.path, 1, 1 - 1) = << >> /\ Len(request.path) \in Nat \ {0}
    BY PathFacts DEF GroveInv
  <2>5. GroveAt'
    <3>1. Descends(request.path)'
      BY <1>1, <2>1 DEF Descends, LowerKeys
    <3>2. OnPath(1)'
      BY <2>1, <2>3, <2>4 DEF OnPath
    <3>3. Len(frames') = 1
      BY <2>3 DEF OfLength
    <3> QED
      BY <2>1, <2>3, <2>4, <3>1, <3>2, <3>3 DEF GroveAt, GroveInv
  <2> QED
    BY <2>1, <2>5 DEF GroveInv
<1>2. CASE ~(options /\ Descends(request.path))
  BY <1>2 DEF CheckEnvelope, Refuse, GroveInv
<1> QED
  BY <1>1, <1>2

\* Where the top frame is.
LEMMA TopFacts ==
  ASSUME GroveAt
  PROVE  LET n == Len(frames)
         IN /\ n \in Nat \ {0} /\ n =< Len(request.path) + 1 /\ Len(request.path) \in Nat \ {0}
            /\ Top = frames[n] /\ Top.path = SubSeq(request.path, 1, n - 1)
            /\ n =< Len(request.path) =>
                 /\ LowerKeys(Top.path) = {request.path[n]}
                 /\ Append(Top.path, request.path[n]) = SubSeq(request.path, 1, n)
            /\ n = Len(request.path) + 1 => LowerKeys(Top.path) = {}
<1> DEFINE n == Len(frames)
<1>1. request \in Requests /\ n \in 1..(Len(request.path) + 1)
  BY DEF GroveAt
<1>2. Len(request.path) \in Nat \ {0} /\ SubSeq(request.path, 1, Len(request.path)) = request.path
  BY <1>1, PathFacts
<1>3. Top = frames[n] /\ Top.path = SubSeq(request.path, 1, n - 1)
  BY <1>1, <1>2 DEF Top, Last, GroveAt, OnPath
<1>4. n =< Len(request.path) =>
        /\ LowerKeys(Top.path) = {request.path[n]}
        /\ Append(Top.path, request.path[n]) = SubSeq(request.path, 1, n)
  <2>1. \A i \in 1..Len(request.path) :
          LowerKeys(SubSeq(request.path, 1, i - 1)) = {request.path[i]}
    BY DEF GroveAt, Descends
  <2>2. n =< Len(request.path) => n \in 1..Len(request.path)
    BY <1>1, <1>2
  <2> HIDE DEF n
  <2> QED
    BY <1>1, <1>3, <2>1, <2>2, PathFacts
<1>5. n = Len(request.path) + 1 => LowerKeys(Top.path) = {}
  <2>1. n = Len(request.path) + 1 => n - 1 = Len(request.path)
    BY <1>2
  <2> QED
    BY <1>2, <1>3, <2>1 DEF GroveAt, Descends
<1> QED
  BY <1>1, <1>2, <1>3, <1>4, <1>5

\* A frame below goes one segment further down the path asked for.
LEMMA DescendKeeps ==
  ASSUME GroveInv, Descend PROVE GroveInv'
<1>1. GroveAt /\ AtEntry /\ HasLower
  BY DEF Descend, AtEntry, GroveInv
<1>2. CASE Refuse
  BY <1>2 DEF Refuse, GroveInv
<1>3. CASE /\ Open(Append(Top.path, Entry.key))
           /\ UNCHANGED <<request, shape, options, results, outcome, items, checked>>
  <2> DEFINE n == Len(frames)
  <2>1. /\ n \in Nat \ {0} /\ n =< Len(request.path) /\ Len(request.path) \in Nat
        /\ OfLength(frames, n) /\ \A i \in 1..n : OnPath(i)
        /\ Append(Top.path, Entry.key) = SubSeq(request.path, 1, n)
    BY <1>1, TopFacts DEF HasLower, GroveAt
  <2> HIDE DEF n
  <2>2. /\ OfLength(frames', n + 1) /\ \A i \in 1..n : frames'[i] = frames[i]
        /\ AFrame(frames'[n + 1]) /\ frames'[n + 1].path = SubSeq(request.path, 1, n)
        /\ frames'[n + 1].consumed = {}
    BY <1>3, <2>1, OpenFacts
  <2>3. Descends(request.path)'
    BY <1>1, <1>3 DEF GroveAt, Descends, LowerKeys
  <2>4. ASSUME NEW i \in 1..(n + 1) PROVE OnPath(i)'
    <3>1. CASE i \in 1..n
      BY <1>3, <2>1, <2>2, <3>1 DEF OnPath
    <3>2. CASE i = n + 1
      <4>1. n = i - 1
        BY <2>1, <3>2
      <4> QED
        BY <1>3, <2>2, <3>2, <4>1 DEF OnPath
    <3> QED
      BY <2>1, <3>1, <3>2
  <2>5. Len(frames') = n + 1
    BY <2>2 DEF OfLength
  <2>6. GroveAt'
    <3>1. Len(frames') \in 1..(Len(request'.path) + 1)
      BY <1>3, <2>1, <2>5
    <3> QED
      BY <1>1, <1>3, <2>2, <2>3, <2>4, <2>5, <3>1 DEF GroveAt
  <2> QED
    BY <1>1, <1>3, <2>6 DEF GroveInv, AtEntry
<1> QED
  BY <1>2, <1>3 DEF Descend

\* The last frame goes on to its next entry, one whose lower layers were checked.
LEMMA OnwardKeeps ==
  ASSUME GroveInv, outcome = "layers", UNCHANGED <<request, shape, outcome>>,
         checked \subseteq checked',
         NEW fs, NEW n \in Nat \ {0}, n =< Len(request.path) + 1, OfLength(fs, n),
         \A i \in 1..n : fs[i] = frames[i] /\ OnPath(i),
         NEW key, frames' = Advance(fs, key),
         key # {} => \A j \in n..Len(request.path) : SubSeq(request.path, 1, j) \in checked'
  PROVE  GroveInv'
<1>1. n \in 1..n /\ AFrame(fs[n]) /\ request \in Requests
  BY DEF OnPath, GroveInv
<1>2. /\ OfLength(frames', n)
      /\ \A i \in 1..(n - 1) : frames'[i] = fs[i]
      /\ AFrame(frames'[n]) /\ frames'[n].path = fs[n].path
      /\ frames'[n].consumed = fs[n].consumed \cup key
  BY <1>1, AdvanceFacts
<1>3. ASSUME NEW i \in 1..n PROVE OnPath(i)'
  <2>1. CASE i \in 1..(n - 1)
    BY <1>2, <2>1 DEF OnPath
  <2>2. CASE i = n
    <3>1. fs[n].consumed \cup key # {} => fs[n].consumed # {} \/ key # {}
      OBVIOUS
    <3> QED
      BY <1>1, <1>2, <2>2, <3>1 DEF OnPath
  <2> QED
    BY <2>1, <2>2
<1>4. Len(frames') = n /\ Len(request.path) \in Nat
  BY <1>1, <1>2, PathFacts DEF OfLength
<1>5. Descends(request.path)'
  BY DEF GroveInv, GroveAt, Descends, LowerKeys
<1>6. n \in 1..(Len(request.path) + 1)
  BY <1>4
<1>7. GroveAt'
  BY <1>1, <1>2, <1>3, <1>4, <1>5, <1>6 DEF GroveAt
<1> QED
  BY <1>7 DEF GroveInv

\* The entry of a value, or of none, is done.
LEMMA TakeKeeps ==
  ASSUME GroveInv, outcome = "layers", frames' = Advance(frames, {}),
         UNCHANGED <<request, shape, outcome, checked>>
  PROVE  GroveInv'
<1> DEFINE n == Len(frames)
<1>1. /\ n \in Nat \ {0} /\ n =< Len(request.path) + 1 /\ OfLength(frames, n)
      /\ \A i \in 1..n : OnPath(i)
  BY TopFacts DEF GroveAt, GroveInv
<1> HIDE DEF n
<1> QED
  BY <1>1, OnwardKeeps

\* A layer that leaves nothing unproven was checked down to the path's end.
LEMMA ConsumedToEnd ==
  ASSUME GroveAt, Unproven = {}
  PROVE  \A j \in Len(frames)..Len(request.path) : SubSeq(request.path, 1, j) \in checked
<1> DEFINE n == Len(frames)
<1>1. n \in Nat \ {0} /\ n =< Len(request.path) + 1 /\ Top = frames[n] /\ OnPath(n)
      /\ Len(request.path) \in Nat
  BY TopFacts DEF GroveAt
<1>2. CASE n =< Len(request.path)
  <2>1. request.path[n] \in LowerKeys(Top.path) /\ LowerKeys(Top.path) \subseteq Top.consumed
    BY <1>2, TopFacts DEF Unproven
  <2> QED
    BY <1>1, <2>1 DEF OnPath
<1>3. CASE n = Len(request.path) + 1
  BY <1>1, <1>3
<1> QED
  BY <1>1, <1>2, <1>3

\* The parent of a layer that is done goes on.
LEMMA ReturnKeeps ==
  ASSUME GroveInv, Return PROVE GroveInv'
<1>1. GroveAt /\ outcome = "layers" /\ Len(frames) > 1
  BY DEF Return, AtEnd, GroveInv
<1>2. CASE Refuse
  BY <1>2 DEF Refuse, GroveInv
<1>3. ASSUME NEW key, key # {}, Unproven = {},
             frames' = Advance(Front(frames), key),
             checked' = checked \cup {Top.path}, UNCHANGED <<request, shape, outcome>>
      PROVE  GroveInv'
  <2> DEFINE n == Len(frames)
             parents == Front(frames)
  <2>1. /\ n \in Nat \ {0} /\ n > 1 /\ n =< Len(request.path) + 1
        /\ Len(request.path) \in Nat
        /\ Top.path = SubSeq(request.path, 1, n - 1) /\ OfLength(frames, n)
        /\ \A i \in 1..n : OnPath(i)
    BY <1>1, TopFacts DEF GroveAt
  <2> HIDE DEF n
  <2>2. OfLength(parents, n - 1) /\ \A i \in 1..(n - 1) : parents[i] = frames[i]
    BY <2>1 DEF OfLength, Front, n
  <2>3. \A j \in (n - 1)..Len(request.path) : SubSeq(request.path, 1, j) \in checked'
    <3>1. \A j \in n..Len(request.path) : SubSeq(request.path, 1, j) \in checked
      BY <1>1, <1>3, ConsumedToEnd DEF n
    <3> QED
      BY <1>3, <2>1, <3>1
  <2>4. n - 1 \in Nat \ {0} /\ n - 1 =< Len(request.path) + 1
    BY <2>1
  <2>5. \A i \in 1..(n - 1) : parents[i] = frames[i] /\ OnPath(i)
    BY <2>1, <2>2
  <2> HIDE DEF parents
  <2>6. frames' = Advance(parents, key)
    BY <1>3 DEF parents
  <2> QED
    BY <1>1, <1>3, <2>2, <2>3, <2>4, <2>5, <2>6, OnwardKeeps
<1> QED
  BY <1>2, <1>3 DEF Return

\* A verified proof's root layer was checked down to the path's end.
LEMMA FinishKeeps ==
  ASSUME GroveInv, Finish PROVE GroveInv'
<1>1. GroveAt /\ Len(frames) = 1
  BY DEF Finish, AtEnd, GroveInv
<1>2. CASE Refuse
  BY <1>2 DEF Refuse, GroveInv
<1>3. CASE /\ Unproven = {} /\ outcome' = "verified"
           /\ UNCHANGED <<request, shape, options, frames, results, honest, checked>>
  BY <1>1, <1>3, ConsumedToEnd DEF GroveInv, CheckedToPath
<1> QED
  BY <1>2, <1>3 DEF Finish

\* The frames go down the path asked for.
THEOREM GroveInvariant == GroveSpec => []GroveInv
<1>1. GroveInit => GroveInv
  BY DEF GroveInit, GroveInv
<1>2. GroveInv /\ [GroveNext]_groveVars => GroveInv'
  <2> SUFFICES ASSUME GroveInv, [GroveNext]_groveVars PROVE GroveInv'
    OBVIOUS
  <2>1. CASE CheckEnvelope
    BY <2>1, EnvelopeKeeps
  <2>2. CASE Malformed
    BY <2>2 DEF Malformed, GroveInv
  <2>3. CASE Descend
    BY <2>3, DescendKeeps
  <2>4. CASE TakeLeaf
    <3>1. CASE Refuse
      BY <3>1 DEF Refuse, GroveInv
    <3>2. CASE ~Refuse
      BY <2>4, <3>2, TakeKeeps DEF TakeLeaf, AtEntry
    <3> QED
      BY <3>1, <3>2
  <2>5. CASE TakeDigest
    BY <2>5, TakeKeeps DEF TakeDigest, AtEntry
  <2>6. CASE Return
    BY <2>6, ReturnKeeps
  <2>7. CASE Finish
    BY <2>7, FinishKeeps
  <2>8. CASE UNCHANGED groveVars
    BY <2>8 DEF groveVars, GroveInv, GroveAt, OnPath, AFrame, Descends, LowerKeys, CheckedToPath, Verified
  <2> QED
    BY <2>1, <2>2, <2>3, <2>4, <2>5, <2>6, <2>7, <2>8 DEF GroveNext
<1> QED
  BY <1>1, <1>2, PTL DEF GroveSpec

\* A verified proof was checked down to the path asked for.
THEOREM ProofIsChecked == GroveSpec => []CheckedToPath
<1>1. GroveInv => CheckedToPath
  BY DEF GroveInv, CheckedToPath, Verified
<1> QED
  BY <1>1, GroveInvariant, PTL

-----------------------------------------------------------------------------

(* Hashes and roots *)

\* Hashes are equal only if what they are computed from is.
LEMMA HashFacts ==
  /\ \A a, b, c, d, e, f : NodeHash(a, b, c) = NodeHash(d, e, f) => a = d /\ b = e /\ c = f
  /\ \A a, b, c : NodeHash(a, b, c) # NullHash /\ NodeHash(a, b, c) # NoHash
  /\ \A a, b, c, d, e : NodeHash(a, b, c) # CombineHash(d, e)
  /\ \A a, b, c, d : NodeHash(a, b, c) # Hashed(d)
  /\ \A a, b, c, d : KvDigestToKvHash(a, b) = KvDigestToKvHash(c, d) => a = c /\ b = d
  /\ \A a, b, c, d : CombineHash(a, b) = CombineHash(c, d) => a = c /\ b = d
  /\ \A a, b, c : CombineHash(a, b) # Hashed(c)
  /\ \A a, b : CombineHash(a, b) # NullHash /\ Hashed(a) # NullHash
  /\ \A a, b : Hashed(a) = Hashed(b) => a = b
<1>1. \A a, b, c, d, e, f : NodeHash(a, b, c) = NodeHash(d, e, f) => a = d /\ b = e /\ c = f
  BY DEF NodeHash
<1>2. \A a, b, c : NodeHash(a, b, c)[1] = "node"
  BY DEF NodeHash
<1>3. \A a, b : CombineHash(a, b)[1] = "combined"
  BY DEF CombineHash
<1>4. \A a : Hashed(a)[1] = "value"
  BY DEF Hashed
<1>5. NullHash[1] = "null" /\ NoHash[1] = "none"
  BY DEF NullHash, NoHash
<1>6. \A a, b, c, d : KvDigestToKvHash(a, b) = KvDigestToKvHash(c, d) => a = c /\ b = d
  BY DEF KvDigestToKvHash
<1>7. \A a, b, c, d : CombineHash(a, b) = CombineHash(c, d) => a = c /\ b = d
  BY DEF CombineHash
<1>8. \A a, b : Hashed(a) = Hashed(b) => a = b
  BY DEF Hashed
<1>9. \A a, b, c : NodeHash(a, b, c) # NullHash /\ NodeHash(a, b, c) # NoHash
  BY <1>2, <1>5
<1>10. \A a, b, c, d, e : NodeHash(a, b, c) # CombineHash(d, e)
  BY <1>2, <1>3
<1>11. \A a, b, c, d : NodeHash(a, b, c) # Hashed(d)
  BY <1>2, <1>4
<1>12. \A a, b, c : CombineHash(a, b) # Hashed(c)
  BY <1>3, <1>4
<1>13. \A a, b : CombineHash(a, b) # NullHash /\ Hashed(a) # NullHash
  BY <1>3, <1>4, <1>5
<1> QED
  BY <1>1, <1>6, <1>7, <1>8, <1>9, <1>10, <1>11, <1>12, <1>13

\* The elements, by their first token.
LEMMA ElementFacts ==
  /\ Item[1] = "item" /\ OtherItem[1] = "item" /\ LongItem[1] = "item63"
  /\ Tree[1] = "tree" /\ EmptyTree[1] = "empty" /\ Reference[1] = "reference"
  /\ NoValue[1] = "none" /\ Item # OtherItem
BY DEF Item, OtherItem, LongItem, Tree, EmptyTree, Reference, NoValue

\* Some roots answer for the paths of length m and more.
RootsFrom(f, m) ==
  /\ f = [p \in Paths |-> f[p]]
  /\ \A p \in Paths : Len(p) >= m => f[p] = RootAt(f, p)

\* A tree has one key or two.
LEMMA KeyFacts ==
  ASSUME NEW p \in Paths
  PROVE  /\ Len(Grove[p]) \in 1..2 /\ Keys(p) = 1..Len(Grove[p])
         /\ \A k \in Keys(p) : k \in 1..2 /\ Grove[p][k] \in Elements
<1>1. Grove[p] \in Seq(Elements) /\ Len(Grove[p]) \in 1..2
  BY GroveAssumption
<1> QED
  BY <1>1 DEF Keys

\* Roots of a path's subtrees are all its own root is computed from.
LEMMA RootAtLocal ==
  ASSUME NEW p \in Paths, NEW f, NEW g,
         \A k \in Keys(p) : Append(p, k) \in Paths => f[Append(p, k)] = g[Append(p, k)]
  PROVE  RootAt(f, p) = RootAt(g, p)
<1>1. Len(Grove[p]) \in 1..2 /\ Keys(p) = 1..Len(Grove[p])
  BY KeyFacts
<1>2. \A k \in Keys(p) : Grove[p][k] = Tree => Append(p, k) \in Paths
  BY GroveAssumption
<1>3. \A k \in Keys(p) : KvAt(f, p, k) = KvAt(g, p, k)
  BY <1>2 DEF KvAt, HashAt
<1>4. 1 \in Keys(p) /\ (Len(Grove[p]) = 2 => 2 \in Keys(p))
  <2>1. \A n \in 1..2 : 1 \in 1..n /\ (n = 2 => 2 \in 1..n)
    OBVIOUS
  <2> QED
    BY <1>1, <2>1, Zenon
<1> QED
  BY <1>3, <1>4 DEF RootAt

\* The depth of the grove is bounded.
LEMMA DepthFacts ==
  /\ Cardinality(Paths) \in Nat
  /\ \A p \in Paths : Len(p) \in Nat /\ Len(p) < Cardinality(Paths)
  /\ \A p \in Paths : \A k \in 1..2 : Len(Append(p, k)) = Len(p) + 1
<1>1. Cardinality(Paths) \in Nat
  BY GroveAssumption, FS_CardinalityType
<1>2. \A p \in Paths : p \in Seq(1..2) /\ Len(p) < Cardinality(Paths)
  BY GroveAssumption
<1> QED
  BY <1>1, <1>2

\* A set of depths has a least one.
LEMMA LeastDepth ==
  ASSUME NEW S, S \subseteq Nat, S # {}
  PROVE  \E b \in S : \A m \in S : b =< m
<1>1. IsWellFoundedOn(OpToRel(<, Nat), Nat)
  BY NatLessThanWellFounded, Zenon
<1>2. PICK b \in S : \A y \in S : ~(<<y, b>> \in OpToRel(<, Nat))
  BY <1>1, WFMin, Zenon
<1>3. \A y \in S : ~(y < b)
  BY <1>2 DEF OpToRel
<1> QED
  BY <1>3

\* There are roots, computed from the deepest paths up.
LEMMA RootsExist ==
  ASSUME NEW d \in Nat
  PROVE  \E f : RootsFrom(f, Cardinality(Paths) - d)
<1> DEFINE D == Cardinality(Paths)
           Bad == {k \in Nat : ~\E f : RootsFrom(f, D - k)}
<1>0. D \in Nat
  BY DepthFacts
<1>1. 0 \notin Bad
  <2>1. RootsFrom([p \in Paths |-> NullHash], D - 0)
    BY DepthFacts DEF RootsFrom
  <2> QED
    BY <2>1
<1>2. ASSUME NEW k \in Nat, k \notin Bad PROVE k + 1 \notin Bad
  <2>1. PICK f : RootsFrom(f, D - k)
    BY <1>2
  <2> DEFINE m == D - (k + 1)
             g == [p \in Paths |-> IF Len(p) = m THEN RootAt(f, p) ELSE f[p]]
  <2>2. m \in Int /\ D - k = m + 1
    BY <1>0
  <2> HIDE DEF m, D
  <2>3. ASSUME NEW p \in Paths, Len(p) >= m PROVE g[p] = RootAt(g, p)
    <3>1. RootAt(f, p) = RootAt(g, p)
      <4>1. ASSUME NEW j \in Keys(p), Append(p, j) \in Paths
            PROVE  f[Append(p, j)] = g[Append(p, j)]
        <5>1. j \in 1..2
          BY KeyFacts
        <5>2. Len(Append(p, j)) = Len(p) + 1 /\ Len(p) \in Nat
          BY <5>1, DepthFacts
        <5>3. Len(Append(p, j)) # m
          BY <2>2, <2>3, <5>2
        <5> QED
          BY <4>1, <5>3
      <4> HIDE DEF g
      <4> QED
        BY <4>1, RootAtLocal
    <3>2. CASE Len(p) = m
      BY <3>1, <3>2
    <3>3. CASE Len(p) # m
      <4>1. Len(p) >= D - k
        BY <2>2, <2>3, <3>3, DepthFacts
      <4> QED
        BY <2>1, <3>1, <3>3, <4>1 DEF RootsFrom
    <3> QED
      BY <3>2, <3>3
  <2>4. g = [p \in Paths |-> g[p]]
    OBVIOUS
  <2>5. RootsFrom(g, m)
    <3> HIDE DEF g
    <3> QED
      BY <2>3, <2>4 DEF RootsFrom
  <2> QED
    BY <2>5 DEF m
<1>3. Bad = {}
  <2> SUFFICES ASSUME Bad # {} PROVE FALSE
    OBVIOUS
  <2>1. PICK b \in Bad : \A m \in Bad : b =< m
    <3>1. Bad \subseteq Nat
      OBVIOUS
    <3> HIDE DEF Bad
    <3> QED
      BY <3>1, LeastDepth
  <2>2. b \in Nat
    OBVIOUS
  <2> HIDE DEF Bad
  <2>3. b # 0
    BY <1>1, <2>1
  <2>4. b - 1 \in Nat /\ b = (b - 1) + 1 /\ ~(b =< b - 1)
    BY <2>2, <2>3
  <2>5. b - 1 \notin Bad
    BY <2>1, <2>4
  <2> QED
    BY <1>2, <2>1, <2>4, <2>5
<1> QED
  BY <1>3

\* So each subtree's root is computed from its elements and its subtrees' roots.
LEMMA RootFacts ==
  ASSUME NEW p \in Paths
  PROVE  /\ Root[p] = NodeHash(KvDigestToKvHash(1, StoredHash(p, 1)), NullHash,
                        IF Len(Grove[p]) = 2
                          THEN NodeHash(KvDigestToKvHash(2, StoredHash(p, 2)), NullHash, NullHash)
                          ELSE NullHash)
<1>1. PICK f : RootsFrom(f, 0)
  <2>1. Cardinality(Paths) \in Nat /\ Cardinality(Paths) - Cardinality(Paths) = 0
    BY DepthFacts
  <2> QED
    BY <2>1, RootsExist
<1>2. \A q \in Paths : f[q] = RootAt(f, q)
  BY <1>1, DepthFacts DEF RootsFrom
<1>3. f = [q \in Paths |-> RootAt(f, q)]
  BY <1>1, <1>2 DEF RootsFrom
<1>4. Root = [q \in Paths |-> RootAt(Root, q)]
  BY <1>3 DEF Root
<1>5. Root[p] = RootAt(Root, p)
  BY <1>4
<1> QED
  BY <1>5 DEF RootAt, KvAt, StoredHash

-----------------------------------------------------------------------------

(* Layers *)

\* The machine's states, operation by operation.
LEMMA ExecuteFacts ==
  ASSUME NEW ops
  PROVE  /\ Len(ops) = 1 => Execute(ops) = Step(Start, ops[1])
         /\ Len(ops) = 3 => Execute(ops) = Step(Step(Step(Start, ops[1]), ops[2]), ops[3])
<1> DEFINE F(r) == [i \in 0..Len(ops) |-> IF i = 0 THEN Start ELSE Step(r[i - 1], ops[i])]
<1>1. ASSUME NEW f, f = F(f)
      PROVE  \E r : r = F(r) /\ Execute(ops) = r[Len(ops)]
  <2>1. Execute(ops) = (CHOOSE r : r = F(r))[Len(ops)]
    BY DEF Execute
  <2>2. (CHOOSE r : r = F(r)) = F(CHOOSE r : r = F(r))
    BY <1>1
  <2> QED
    BY <2>1, <2>2
<1> HIDE DEF F
<1>2. CASE Len(ops) = 1
  <2> DEFINE f == [i \in 0..1 |-> IF i = 0 THEN Start ELSE Step(Start, ops[1])]
  <2>1. f[0] = Start
    OBVIOUS
  <2>2. f = F(f)
    BY <1>2, <2>1 DEF F
  <2> HIDE DEF f
  <2>3. PICK r : r = F(r) /\ Execute(ops) = r[Len(ops)]
    BY <1>1, <2>2
  <2>4. r[0] = Start /\ r[1] = Step(r[0], ops[1])
    BY <1>2, <2>3 DEF F
  <2> QED
    BY <1>2, <2>3, <2>4
<1>3. CASE Len(ops) = 3
  <2> DEFINE s1 == Step(Start, ops[1])
             s2 == Step(s1, ops[2])
             s3 == Step(s2, ops[3])
  <2> HIDE DEF s1, s2, s3
  <2> DEFINE f == [i \in 0..3 |-> IF i = 0 THEN Start ELSE IF i = 1 THEN s1
                                  ELSE IF i = 2 THEN s2 ELSE s3]
  <2>1. f[0] = Start /\ f[1] = s1 /\ f[2] = s2 /\ f[3] = s3
    OBVIOUS
  <2>2. f = [i \in 0..3 |-> IF i = 0 THEN Start ELSE Step(f[i - 1], ops[i])]
    <3>1. ASSUME NEW i \in 0..3
          PROVE f[i] = IF i = 0 THEN Start ELSE Step(f[i - 1], ops[i])
      <4> HIDE DEF f
      <4>1. i = 0 \/ (i = 1 /\ i - 1 = 0) \/ (i = 2 /\ i - 1 = 1) \/ (i = 3 /\ i - 1 = 2)
        OBVIOUS
      <4> QED
        BY <2>1, <4>1 DEF s1, s2, s3
    <3>2. f = [i \in 0..3 |-> f[i]]
      OBVIOUS
    <3> HIDE DEF f
    <3> QED
      BY <3>1, <3>2
  <2> HIDE DEF f
  <2>3. f = F(f)
    BY <1>3, <2>2 DEF F
  <2>4. PICK r : r = F(r) /\ Execute(ops) = r[Len(ops)]
    BY <1>1, <2>3
  <2>5. r[0] = Start /\ r[1] = Step(r[0], ops[1]) /\ r[2] = Step(r[1], ops[2])
        /\ r[3] = Step(r[2], ops[3])
    BY <1>3, <2>4 DEF F
  <2> QED
    BY <1>3, <2>4, <2>5
<1> QED
  BY <1>2, <1>3

\* A pushed node's tree is the node's own hash or its subtree's.
LEMMA NodeFacts ==
  ASSUME NEW n \in Nodes
  PROVE  /\ n.type \in {"Hash", "KVHash", "KV", "KVValueHash", "KVRefValueHash", "KVDigest"}
         /\ n.type = "Hash" => \E a, b, c : n.hash = NodeHash(a, b, c)
         /\ n.type = "KV" => n.key \in {1, 2} /\ n.value \in Values
         /\ n.type = "KVValueHash" => n.key \in {1, 2} /\ n.value \in Values
         /\ n.type = "KVRefValueHash" =>
              /\ n.key \in {1, 2} /\ n.value \in Values
              /\ \E v \in {Tree, Reference} : n.hash = Hashed(v)
         /\ n.type = "KVDigest" => n.key \in {1, 2} /\ n.value = NoValue
<1>1. CASE \E p \in Paths : n = Node("Hash", NoKey, NoValue, Root[p])
  BY <1>1, RootFacts DEF Node
<1>2. CASE \E p \in Paths : n = Node("Hash", NoKey, NoValue,
              NodeHash(KvDigestToKvHash(2, StoredHash(p, 2)), NullHash, NullHash))
  BY <1>2 DEF Node
<1>3. CASE \E p \in Paths : n = Node("KVHash", NoKey, NoValue, FirstKv(p))
  BY <1>3 DEF Node
<1>4. CASE \E k \in {1, 2}, v \in Values : n = Node("KV", k, v, NoHash)
  BY <1>4 DEF Node
<1>5. CASE \E at \in StoredAt, v \in Values :
              n = Node("KVValueHash", at[2], v, StoredHash(at[1], at[2]))
  BY <1>5 DEF Node, StoredAt
<1>6. CASE \E at \in CombinedAt, v \in Values :
              n = Node("KVRefValueHash", at[2], v, Hashed(Grove[at[1]][at[2]]))
  BY <1>6 DEF Node, StoredAt, CombinedAt
<1>7. CASE \E at \in StoredAt : n = Node("KVDigest", at[2], NoValue, StoredHash(at[1], at[2]))
  BY <1>7 DEF Node, StoredAt
<1> QED
  BY <1>1, <1>2, <1>3, <1>4, <1>5, <1>6, <1>7 DEF Nodes

\* What a value hashes to: its own hash, but for the ambiguous bytes.
LEMMA ValueFacts ==
  ASSUME NEW v \in Values
  PROVE  /\ v # NoValue
         /\ \/ v \in Elements /\ ValueHash(v) = Hashed(v)
            \/ v[1] = "pun63" /\ \E a, b : ValueHash(v) = CombineHash(a, b)
            \/ v[1] = "pun95" /\ \E a, b, c : ValueHash(v) = NodeHash(a, b, c)
<1>1. CASE v \in Elements
  BY <1>1, ElementFacts DEF Elements, ValueHash
<1>2. CASE \E at \in CombinedAt : v = <<"pun63", at[1], at[2]>>
  <2>1. PICK at \in CombinedAt : v = <<"pun63", at[1], at[2]>>
    BY <1>2
  <2>2. v[1] = "pun63" /\ v[2] = at[1] /\ v[3] = at[2]
    BY <2>1
  <2>3. ValueHash(v) = StoredHash(at[1], at[2])
    BY <2>2 DEF ValueHash
  <2>4. Grove[at[1]][at[2]] \in {Tree, Reference}
    BY DEF CombinedAt
  <2>5. \E a, b : StoredHash(at[1], at[2]) = CombineHash(a, b)
    BY <2>4 DEF StoredHash, HashAt, CommittedHash
  <2> QED
    BY <2>2, <2>3, <2>5, ElementFacts
<1>3. CASE \E at \in CombinedAt : Grove[at[1]][at[2]] = Tree /\ v = <<"pun95", at[1], at[2]>>
  <2>1. PICK at \in CombinedAt : Grove[at[1]][at[2]] = Tree /\ v = <<"pun95", at[1], at[2]>>
    BY <1>3
  <2>2. v[1] = "pun95" /\ v[2] = at[1] /\ v[3] = at[2]
    BY <2>1
  <2>3. ValueHash(v) = Root[Append(at[1], at[2])]
    BY <2>2 DEF ValueHash
  <2>4. Append(at[1], at[2]) \in Paths
    BY <2>1, GroveAssumption DEF CombinedAt, StoredAt
  <2>5. \E a, b, c : Root[Append(at[1], at[2])] = NodeHash(a, b, c)
    BY <2>4, RootFacts
  <2> QED
    BY <2>2, <2>3, <2>5, ElementFacts
<1> QED
  BY <1>1, <1>2, <1>3 DEF Values, Puns

\* The chain commits to an Item by its hash and to the others by a combined one.
LEMMA StoredFacts ==
  ASSUME NEW p \in Paths, NEW k \in Keys(p)
  PROVE  \/ IsItem(Stored(p, k)) /\ Stored(p, k) \in Elements /\ StoredHash(p, k) = Hashed(Stored(p, k))
         \/ /\ Stored(p, k) = Tree /\ Append(p, k) \in Paths
            /\ StoredHash(p, k) = CombineHash(Hashed(Tree), Root[Append(p, k)])
         \/ Stored(p, k) = EmptyTree /\ StoredHash(p, k) = CombineHash(Hashed(EmptyTree), NullHash)
         \/ /\ Stored(p, k) = Reference
            /\ StoredHash(p, k) = CombineHash(Hashed(Reference), Hashed(Referenced))
<1>1. Grove[p][k] \in Elements
  BY KeyFacts
<1>2. Grove[p][k] = Tree => Append(p, k) \in Paths
  BY GroveAssumption
<1>3. Grove[p][k] \in {Item, OtherItem, LongItem}
      => IsItem(Grove[p][k]) /\ StoredHash(p, k) = Hashed(Grove[p][k])
  BY ElementFacts DEF IsItem, StoredHash, HashAt, CommittedHash
<1>4. Grove[p][k] = Tree => StoredHash(p, k) = CombineHash(Hashed(Tree), Root[Append(p, k)])
  BY ElementFacts DEF StoredHash, HashAt, CommittedHash
<1>5. Grove[p][k] = EmptyTree => StoredHash(p, k) = CombineHash(Hashed(EmptyTree), NullHash)
  BY ElementFacts DEF StoredHash, HashAt, CommittedHash
<1>6. Grove[p][k] = Reference
      => StoredHash(p, k) = CombineHash(Hashed(Reference), Hashed(Referenced))
  BY ElementFacts DEF StoredHash, HashAt, CommittedHash
<1> QED
  BY <1>1, <1>2, <1>3, <1>4, <1>5, <1>6 DEF Elements, Stored

\* An entry of a layer, and one that agrees with what the grove has at p.
IsEntry(e) ==
  /\ e.type \in {"KV", "KVValueHash", "KVRefValueHash", "KVDigest"}
  /\ IF e.type = "KVDigest" THEN e.value = NoValue ELSE e.value \in Values
  /\ e.type = "KV" => e.hash = ValueHash(e.value)
  /\ e.type = "KVRefValueHash" => \E v \in {Tree, Reference} : e.hash = Hashed(v)

Matches(e, p) ==
  /\ e.key \in Keys(p)
  /\ e.type = "KV" => ValueHash(e.value) = StoredHash(p, e.key)
  /\ e.type = "KVValueHash" => e.hash = StoredHash(p, e.key)
  /\ e.type = "KVRefValueHash" => CombineHash(e.hash, ValueHash(e.value)) = StoredHash(p, e.key)

\* A node whose hash is that of the grove's key k says what the grove has there.
LEMMA NodeMatches ==
  ASSUME NEW p \in Paths, NEW k \in Keys(p), NEW n \in Nodes, n.type # "Hash",
         KvHash(n) = KvDigestToKvHash(k, StoredHash(p, k)),
         NEW j \in 1..Len(Visited(n))
  PROVE  IsEntry(Visited(n)[j]) /\ Matches(Visited(n)[j], p)
<1>1. n.type = "KVHash" => Visited(n) = << >>
  BY DEF Visited
<1>2. n.type # "KVHash"
  BY <1>1
<1>3. CASE n.type = "KV"
  <2>1. Visited(n) = <<[type |-> "KV", key |-> n.key, value |-> n.value, hash |-> ValueHash(n.value)]>>
    BY <1>3 DEF Visited
  <2>2. n.key = k /\ ValueHash(n.value) = StoredHash(p, k)
    BY <1>3, HashFacts DEF KvHash
  <2>3. Visited(n)[j] = [type |-> "KV", key |-> n.key, value |-> n.value, hash |-> ValueHash(n.value)]
    BY <2>1
  <2>4. n.value \in Values
    BY <1>3, NodeFacts
  <2> QED
    BY <2>2, <2>3, <2>4 DEF IsEntry, Matches
<1>4. CASE n.type \in {"KVValueHash", "KVRefValueHash", "KVDigest"}
  <2>1. Visited(n) = <<n>>
    BY <1>4 DEF Visited
  <2>2. Visited(n)[j] = n
    BY <2>1
  <2>3. n.key = k
    BY <1>4, HashFacts DEF KvHash
  <2>4. n.type \in {"KVValueHash", "KVDigest"} => n.hash = StoredHash(p, k)
    BY HashFacts DEF KvHash
  <2>5. n.type = "KVRefValueHash" => CombineHash(n.hash, ValueHash(n.value)) = StoredHash(p, k)
    BY HashFacts DEF KvHash
  <2>6. IsEntry(n)
    BY <1>4, NodeFacts DEF IsEntry
  <2> QED
    BY <1>4, <2>2, <2>3, <2>4, <2>5, <2>6 DEF Matches
<1> QED
  BY <1>2, <1>3, <1>4, NodeFacts

\* One node pushed, then a second, then one attached to the other.
LEMMA PushFacts ==
  ASSUME NEW o \in PushOps
  PROVE  \E last : Step(Start, o) = Machine(<<Leaf(o.node)>>, last, Visited(o.node))
<1>1. o.op \in Pushes /\ o.node \in Nodes
  BY DEF PushOps
<1>2. Visited(o.node) = << >> \/ \E e : Visited(o.node) = <<e>>
  BY DEF Visited
<1>3. << >> \o Visited(o.node) = Visited(o.node)
  BY <1>2
<1>4. InOrder(o.op, o.node.key, NoKey)
  BY DEF InOrder
<1>5. Append(<< >>, Leaf(o.node)) = <<Leaf(o.node)>>
  OBVIOUS
<1>7. Step(Start, o) = PushNode(Start, o.op, o.node)
  BY <1>1 DEF Step, Start, Machine
<1> QED
  BY <1>3, <1>4, <1>5, <1>7 DEF PushNode, Start, Machine

\* The tree of a node and one child's hash.
WithChild(n, side, h) == [Leaf(n) EXCEPT ![side] = h]

\* One of two nodes is the parent of the other.
IsPair(m, n1, n2) ==
  \E parent, child \in {n1, n2} :
    /\ {n1, n2} = {parent, child}
    /\ parent.type # "Hash"
    /\ \E side \in {"left", "right"} : m.stack = <<WithChild(parent, side, TreeHash(Leaf(child)))>>
    /\ m.proved = Visited(n1) \o Visited(n2)

\* What two pushes and an attach leave is such a pair's tree.
LEMMA PairFacts ==
  ASSUME NEW o1 \in PushOps, NEW o2 \in PushOps, NEW a \in AttachOps,
         NEW m, m = Step(Step(Step(Start, o1), o2), a), m.ok
  PROVE  IsPair(m, o1.node, o2.node)
<1> DEFINE n1 == o1.node
           n2 == o2.node
           seen == Visited(n1) \o Visited(n2)
<1>1. PICK l1 : Step(Start, o1) = Machine(<<Leaf(n1)>>, l1, Visited(n1))
  BY PushFacts
<1>2. o2.op \in Pushes /\ a.op \in Attaches /\ a.op \notin Pushes
  BY DEF PushOps, AttachOps, Attaches, Pushes
<1> HIDE DEF n1, n2
<1>3. ~Step(Failed, a).ok
  BY DEF Step, Failed
<1>4. Step(Step(Start, o1), o2) = PushNode(Machine(<<Leaf(n1)>>, l1, Visited(n1)), o2.op, n2)
  BY <1>1, <1>2 DEF Step, Machine, n2
<1>5. PICK l2 : Step(Step(Start, o1), o2) = Machine(<<Leaf(n1), Leaf(n2)>>, l2, seen)
  <2>1. Append(<<Leaf(n1)>>, Leaf(n2)) = <<Leaf(n1), Leaf(n2)>>
    <3> DEFINE s == Append(<<Leaf(n1)>>, Leaf(n2))
    <3>1. s \in Seq({Leaf(n1), Leaf(n2)}) /\ Len(s) = 2 /\ s[1] = Leaf(n1) /\ s[2] = Leaf(n2)
      OBVIOUS
    <3> HIDE DEF s
    <3>2. s = <<Leaf(n1), Leaf(n2)>>
      BY <3>1
    <3> QED
      BY <3>2 DEF s
  <2>2. Step(Step(Start, o1), o2) # Failed
    BY <1>3
  <2> QED
    BY <1>4, <2>1, <2>2 DEF PushNode, Machine
<1> DEFINE two == Machine(<<Leaf(n1), Leaf(n2)>>, l2, seen)
<1>6. m = AttachTop(two, a.op)
  BY <1>2, <1>5 DEF Step, Machine
<1>7. ~Failed.ok
  BY DEF Failed
<1>8. two.stack = <<Leaf(n1), Leaf(n2)>> /\ two.last = l2 /\ two.proved = seen
  BY DEF Machine
<1>9. Len(two.stack) = 2 /\ two.stack[2] = Leaf(n2) /\ two.stack[2 - 1] = Leaf(n1)
      /\ SubSeq(two.stack, 1, 2 - 2) = << >>
  <2>1. \A x, y : /\ Len(<<x, y>>) = 2 /\ <<x, y>>[2] = y /\ <<x, y>>[2 - 1] = x
                  /\ SubSeq(<<x, y>>, 1, 2 - 2) = << >>
    OBVIOUS
  <2> HIDE DEF two
  <2> QED
    BY <1>8, <2>1
<1> HIDE DEF two, seen
<1> DEFINE parentOnTop == a.op \in {"Parent", "ParentInverted"}
           side == IF a.op \in {"Parent", "ChildInverted"} THEN "left" ELSE "right"
           parent == IF parentOnTop THEN n2 ELSE n1
           child == IF parentOnTop THEN n1 ELSE n2
           tree == WithChild(parent, side, TreeHash(Leaf(child)))
<1>10. /\ two.stack[IF parentOnTop THEN Len(two.stack) ELSE Len(two.stack) - 1] = Leaf(parent)
       /\ two.stack[IF parentOnTop THEN Len(two.stack) - 1 ELSE Len(two.stack)] = Leaf(child)
       /\ Len(two.stack) >= 2 /\ SubSeq(two.stack, 1, Len(two.stack) - 2) = << >>
  BY <1>9
<1>11. m = IF MayAttach(Leaf(parent), side)
             THEN Machine(Append(<< >>, tree), l2, seen) ELSE Failed
  BY <1>6, <1>8, <1>10, Zenon DEF AttachTop, WithChild
<1> HIDE DEF tree, side
<1>12. MayAttach(Leaf(parent), side) /\ m = Machine(<<tree>>, l2, seen)
  <2>1. Append(<< >>, tree) = <<tree>>
    OBVIOUS
  <2> QED
    BY <1>7, <1>11, <2>1
<1>13. parent.type # "Hash"
  BY <1>12 DEF MayAttach, Leaf
<1>14. m.stack = <<tree>> /\ m.proved = seen
  BY <1>12 DEF Machine
<1>15. side \in {"left", "right"}
  BY DEF side
<1>16. {n1, n2} = {parent, child} /\ parent \in {n1, n2} /\ child \in {n1, n2}
  OBVIOUS
<1>17. \E s \in {"left", "right"} : m.stack = <<WithChild(parent, s, TreeHash(Leaf(child)))>>
  BY <1>14, <1>15 DEF tree
<1> HIDE DEF parent, child
<1>18. n1 = o1.node /\ n2 = o2.node /\ seen = Visited(o1.node) \o Visited(o2.node)
  BY DEF n1, n2, seen
<1> QED
  <2>1. parent \in {o1.node, o2.node} /\ child \in {o1.node, o2.node}
    BY <1>16, <1>18
  <2>2. {o1.node, o2.node} = {parent, child}
    BY <1>16, <1>18
  <2>3. m.proved = Visited(o1.node) \o Visited(o2.node)
    BY <1>14, <1>18
  <2> QED
    BY <1>13, <1>17, <2>1, <2>2, <2>3, Zenon DEF IsPair

\* The hash of a node's tree, without a child and with one.
LEMMA TreeFacts ==
  ASSUME NEW n, n.type # "Hash"
  PROVE  /\ TreeHash(Leaf(n)) = NodeHash(KvHash(n), NullHash, NullHash)
         /\ \A h : h # NoHash =>
              /\ TreeHash(WithChild(n, "left", h)) = NodeHash(KvHash(n), h, NullHash)
              /\ TreeHash(WithChild(n, "right", h)) = NodeHash(KvHash(n), NullHash, h)
<1>1. Leaf(n).node = n /\ Leaf(n).left = NoHash /\ Leaf(n).right = NoHash
  BY DEF Leaf
<1>2. TreeHash(Leaf(n)) = NodeHash(KvHash(n), NullHash, NullHash)
  BY <1>1, Zenon DEF TreeHash, ChildHash
<1>3. ASSUME NEW h, h # NoHash
      PROVE  /\ TreeHash(WithChild(n, "left", h)) = NodeHash(KvHash(n), h, NullHash)
             /\ TreeHash(WithChild(n, "right", h)) = NodeHash(KvHash(n), NullHash, h)
  <2>1. /\ WithChild(n, "left", h).node = n
        /\ WithChild(n, "left", h).left = h
        /\ WithChild(n, "left", h).right = NoHash
        /\ WithChild(n, "right", h).node = n
        /\ WithChild(n, "right", h).left = NoHash
        /\ WithChild(n, "right", h).right = h
    BY DEF WithChild, Leaf
  <2>2. ChildHash(h) = h /\ ChildHash(NoHash) = NullHash
    BY <1>3 DEF ChildHash
  <2> HIDE DEF WithChild
  <2> QED
    BY <2>1, <2>2, Zenon DEF TreeHash
<1> QED
  BY <1>2, <1>3

\* Every tree's hash is a node's.
LEMMA LeafFacts ==
  ASSUME NEW n \in Nodes
  PROVE  \E a, b, c : TreeHash(Leaf(n)) = NodeHash(a, b, c)
<1>1. CASE n.type = "Hash"
  BY <1>1, NodeFacts DEF TreeHash, Leaf
<1>2. CASE n.type # "Hash"
  BY <1>2, TreeFacts, Zenon
<1> QED
  BY <1>1, <1>2

\* What a layer with the root of a subtree proves agrees with the subtree:
\* a single node is the first key's; of two, the parent is, and the child the
\* second's, to its right.
LEMMA LayerMatches ==
  ASSUME NEW p \in Paths, NEW l \in Layers, l.root = Root[p]
  PROVE  /\ Len(l.entries) \in Nat /\ DOMAIN l.entries = 1..Len(l.entries)
         /\ \A j \in 1..Len(l.entries) : IsEntry(l.entries[j]) /\ Matches(l.entries[j], p)
<1> DEFINE kv(k) == KvDigestToKvHash(k, StoredHash(p, k))
           second == IF Len(Grove[p]) = 2 THEN NodeHash(kv(2), NullHash, NullHash) ELSE NullHash
           Good(e) == IsEntry(e) /\ Matches(e, p)
           AllGood(s) == Len(s) \in Nat /\ DOMAIN s = 1..Len(s) /\ \A j \in 1..Len(s) : Good(s[j])
<1>1. Root[p] = NodeHash(kv(1), NullHash, second)
  BY RootFacts
<1>2. PICK m \in Executed : IsTreeProof(m) /\ l = LayerOf(m)
  BY DEF Layers
<1>3. m.ok /\ TreeHash(m.stack[1]) = Root[p] /\ l.entries = m.proved
  BY <1>2 DEF LayerOf, IsTreeProof
<1>4. 1 \in Keys(p) /\ (Len(Grove[p]) = 2 => 2 \in Keys(p))
  BY KeyFacts
<1>5. ASSUME NEW n \in Nodes PROVE Visited(n) = << >> \/ \E e : Visited(n) = <<e>>
  BY DEF Visited
<1>6. ASSUME NEW n \in Nodes, NEW k \in Keys(p), n.type # "Hash", KvHash(n) = kv(k)
      PROVE  AllGood(Visited(n))
  <2>1. \A j \in 1..Len(Visited(n)) : Good(Visited(n)[j])
    BY <1>6, NodeMatches
  <2>2. Len(Visited(n)) \in Nat /\ DOMAIN Visited(n) = 1..Len(Visited(n))
    BY <1>5
  <2> QED
    BY <2>1, <2>2
<1>7. ASSUME NEW n \in Nodes, n.type = "Hash" PROVE AllGood(Visited(n))
  <2>1. Visited(n) = << >>
    BY <1>7 DEF Visited
  <2> QED
    BY <2>1
<1>8. CASE \E o \in PushOps : m = Execute(<<o>>)
  <2>1. PICK o \in PushOps : m = Execute(<<o>>)
    BY <1>8
  <2>2. m = Step(Start, o)
    <3>1. Len(<<o>>) = 1 /\ <<o>>[1] = o
      OBVIOUS
    <3> QED
      BY <2>1, <3>1, ExecuteFacts
  <2>3. o.node \in Nodes
    BY DEF PushOps
  <2>4. m.stack = <<Leaf(o.node)>> /\ m.proved = Visited(o.node)
    BY <2>2, PushFacts DEF Machine
  <2>5. CASE o.node.type = "Hash"
    BY <1>3, <1>7, <2>3, <2>4, <2>5
  <2>6. CASE o.node.type # "Hash"
    <3>1. m.stack[1] = Leaf(o.node)
      BY <2>4
    <3>2. TreeHash(m.stack[1]) = NodeHash(KvHash(o.node), NullHash, NullHash)
      BY <2>6, <3>1, TreeFacts, Zenon
    <3>3. KvHash(o.node) = kv(1)
      BY <1>1, <1>3, <3>2, HashFacts
    <3> QED
      BY <1>3, <1>4, <1>6, <2>3, <2>4, <2>6, <3>3
  <2> QED
    BY <2>5, <2>6
<1>9. CASE \E o1 \in PushOps, o2 \in PushOps, a \in AttachOps : m = Execute(<<o1, o2, a>>)
  <2>1. PICK o1 \in PushOps, o2 \in PushOps, a \in AttachOps : m = Execute(<<o1, o2, a>>)
    BY <1>9
  <2>2. m = Step(Step(Step(Start, o1), o2), a)
    <3>1. Len(<<o1, o2, a>>) = 3 /\ <<o1, o2, a>>[1] = o1 /\ <<o1, o2, a>>[2] = o2
          /\ <<o1, o2, a>>[3] = a
      OBVIOUS
    <3> QED
      BY <2>1, <3>1, ExecuteFacts
  <2>3. o1.node \in Nodes /\ o2.node \in Nodes
    BY DEF PushOps
  <2>4. PICK parent \in {o1.node, o2.node}, child \in {o1.node, o2.node} :
           /\ {o1.node, o2.node} = {parent, child}
           /\ parent.type # "Hash"
           /\ \E side \in {"left", "right"} : m.stack = <<WithChild(parent, side, TreeHash(Leaf(child)))>>
           /\ m.proved = Visited(o1.node) \o Visited(o2.node)
    <3>1. IsPair(m, o1.node, o2.node)
      BY <1>3, <2>2, PairFacts
    <3> QED
      BY <3>1, Zenon DEF IsPair
  <2>5. parent \in Nodes /\ child \in Nodes
    BY <2>3
  <2> DEFINE h == TreeHash(Leaf(child))
  <2>6. h # NoHash /\ h # NullHash
    BY <2>5, LeafFacts, HashFacts
  <2> HIDE DEF h
  <2>7. ~(m.stack = <<WithChild(parent, "left", h)>>)
    <3> SUFFICES ASSUME m.stack = <<WithChild(parent, "left", h)>> PROVE FALSE
      OBVIOUS
    <3>0. m.stack[1] = WithChild(parent, "left", h)
      OBVIOUS
    <3>1. TreeHash(m.stack[1]) = NodeHash(KvHash(parent), h, NullHash)
      BY <2>4, <2>6, <3>0, TreeFacts, Zenon
    <3> QED
      BY <1>1, <1>3, <2>6, <3>1, HashFacts
  <2>8. m.stack = <<WithChild(parent, "right", h)>>
    BY <2>4, <2>7 DEF h
  <2>9. TreeHash(m.stack[1]) = NodeHash(KvHash(parent), NullHash, h)
    <3>1. m.stack[1] = WithChild(parent, "right", h)
      BY <2>8
    <3> QED
      BY <2>4, <2>6, <3>1, TreeFacts, Zenon
  <2>10. KvHash(parent) = kv(1) /\ h = second
    BY <1>1, <1>3, <2>9, HashFacts
  <2>11. Len(Grove[p]) = 2 /\ h = NodeHash(kv(2), NullHash, NullHash)
    BY <2>6, <2>10
  <2>12. AllGood(Visited(parent))
    BY <1>4, <1>6, <2>4, <2>5, <2>10
  <2>13. AllGood(Visited(child))
    <3>1. CASE child.type = "Hash"
      BY <1>7, <2>5, <3>1
    <3>2. CASE child.type # "Hash"
      <4>1. h = NodeHash(KvHash(child), NullHash, NullHash)
        BY <2>6, <3>2, TreeFacts DEF h
      <4>2. KvHash(child) = kv(2)
        BY <2>11, <4>1, HashFacts
      <4> QED
        BY <1>4, <1>6, <2>5, <2>11, <3>2, <4>2
    <3> QED
      BY <3>1, <3>2
  <2> HIDE DEF Good
  <2>14. AllGood(Visited(o1.node)) /\ AllGood(Visited(o2.node))
    BY <2>4, <2>12, <2>13
  <2>15. AllGood(Visited(o1.node) \o Visited(o2.node))
    <3> DEFINE s == Visited(o1.node)
               t == Visited(o2.node)
    <3>1. s = << >> \/ \E e : s = <<e>>
      BY <1>5, <2>3
    <3>2. t = << >> \/ \E e : t = <<e>>
      BY <1>5, <2>3
    <3>3. Len(s \o t) = Len(s) + Len(t) /\ DOMAIN (s \o t) = 1..Len(s \o t)
          /\ \A j \in 1..Len(s \o t) : (s \o t)[j] = IF j =< Len(s) THEN s[j] ELSE t[j - Len(s)]
      BY <3>1, <3>2
    <3> HIDE DEF s, t
    <3>4. AllGood(s) /\ AllGood(t)
      BY <2>14 DEF s, t
    <3>5. AllGood(s \o t)
      BY <3>3, <3>4
    <3> QED
      BY <3>5 DEF s, t
  <2>16. l.entries = Visited(o1.node) \o Visited(o2.node)
    BY <1>3, <2>4
  <2>17. AllGood(l.entries)
    BY <2>15, <2>16
  <2> QED
    BY <2>17 DEF Good
<1>10. \/ \E o \in PushOps : m = Execute(<<o>>)
       \/ \E o1 \in PushOps, o2 \in PushOps, a \in AttachOps : m = Execute(<<o1, o2, a>>)
  BY <1>2 DEF Executed
<1> QED
  BY <1>8, <1>9, <1>10, Zenon

-----------------------------------------------------------------------------

(* What is proven is stored *)

\* An entry that agrees with the grove and passes _bind_leaf_value is of the
\* value stored.
LEMMA EntryBinds ==
  ASSUME NEW p \in Paths, NEW e, IsEntry(e), Matches(e, p), e.value # NoValue, ~Contradicts(e)
  PROVE  /\ Bound(e) => IF e.type = "KVRefValueHash"
                          THEN Stored(p, e.key) = Reference /\ e.value = Referenced
                          ELSE Stored(p, e.key) = e.value
         /\ e.type = "KV" /\ IsItem(Stored(p, e.key)) => Stored(p, e.key) = e.value
<1> DEFINE k == e.key
           v == e.value
<1>1. k \in Keys(p) /\ v \in Values
  BY DEF IsEntry, Matches
<1>2. \/ v \in Elements /\ ValueHash(v) = Hashed(v)
      \/ v[1] = "pun63" /\ \E a, b : ValueHash(v) = CombineHash(a, b)
      \/ v[1] = "pun95" /\ \E a, b, c : ValueHash(v) = NodeHash(a, b, c)
  BY <1>1, ValueFacts
<1>3. \/ IsItem(Stored(p, k)) /\ Stored(p, k) \in Elements /\ StoredHash(p, k) = Hashed(Stored(p, k))
      \/ /\ Stored(p, k) = Tree /\ Append(p, k) \in Paths
         /\ StoredHash(p, k) = CombineHash(Hashed(Tree), Root[Append(p, k)])
      \/ Stored(p, k) = EmptyTree /\ StoredHash(p, k) = CombineHash(Hashed(EmptyTree), NullHash)
      \/ /\ Stored(p, k) = Reference
         /\ StoredHash(p, k) = CombineHash(Hashed(Reference), Hashed(Referenced))
  BY <1>1, StoredFacts
<1>4. ~IsItem(Tree) /\ ~IsItem(EmptyTree) /\ ~IsItem(Reference)
  BY ElementFacts DEF IsItem
<1>5. CASE e.type = "KV"
  <2>1. ValueHash(v) = StoredHash(p, k)
    BY <1>5 DEF Matches
  <2>2. Bound(e) => v[1] # "pun63"
    BY <1>5 DEF Bound, Ambiguous, Is63
  <2>3. IsItem(Stored(p, k)) => Stored(p, k) = v
    <3> SUFFICES ASSUME IsItem(Stored(p, k)) PROVE Stored(p, k) = v
      OBVIOUS
    <3>1. StoredHash(p, k) = Hashed(Stored(p, k))
      BY <1>3, <1>4
    <3>2. ValueHash(v) = Hashed(v)
      BY <1>2, <2>1, <3>1, HashFacts
    <3> QED
      BY <2>1, <3>1, <3>2, HashFacts
  <2>4. v[1] # "pun63" => IsItem(Stored(p, k))
    <3> SUFFICES ASSUME v[1] # "pun63" PROVE IsItem(Stored(p, k))
      OBVIOUS
    <3>1. \A a, b : ValueHash(v) # CombineHash(a, b)
      BY <1>2, HashFacts
    <3> QED
      BY <1>3, <2>1, <3>1
  <2> QED
    BY <1>5, <2>2, <2>3, <2>4
<1>6. CASE e.type = "KVValueHash"
  <2> SUFFICES ASSUME Bound(e) PROVE Stored(p, k) = v
    BY <1>6
  <2>1. v[1] = "empty"
    BY <1>6 DEF Bound, IsTree, HasRootKey
  <2>2. v = EmptyTree /\ ValueHash(v) = Hashed(v)
    BY <1>2, <2>1, ElementFacts DEF Elements
  <2>3. IsTree(v) /\ ~HasRootKey(v)
    BY <2>1 DEF IsTree, HasRootKey
  <2>4. StoredHash(p, k) = CombineHash(Hashed(EmptyTree), NullHash)
    BY <1>6, <2>2, <2>3 DEF Contradicts, Matches
  <2>5. Tree # EmptyTree /\ Reference # EmptyTree
    BY ElementFacts
  <2> QED
    BY <1>3, <2>2, <2>4, <2>5, HashFacts
<1>7. CASE e.type = "KVRefValueHash"
  <2> SUFFICES ASSUME Bound(e) PROVE Stored(p, k) = Reference /\ v = Referenced
    BY <1>7
  <2>1. v[1] # "pun95"
    BY <1>7 DEF Bound, Ambiguous, Is95
  <2>2. CombineHash(e.hash, ValueHash(v)) = StoredHash(p, k)
    BY <1>7 DEF Matches
  <2>3. \A a, b, c : ValueHash(v) # NodeHash(a, b, c)
    BY <1>2, <2>1, HashFacts
  <2>4. ValueHash(v) # NullHash
    BY <1>2, HashFacts
  <2>5. \A q \in Paths : \E a, b, c : Root[q] = NodeHash(a, b, c)
    BY RootFacts
  <2>6. Stored(p, k) = Reference /\ ValueHash(v) = Hashed(Referenced)
    BY <1>3, <2>2, <2>3, <2>4, <2>5, HashFacts
  <2>7. v \in Elements /\ ValueHash(v) = Hashed(v)
    BY <1>2, <2>6, HashFacts
  <2> QED
    BY <2>6, <2>7, HashFacts
<1>8. e.type # "KVDigest"
  BY DEF IsEntry
<1> QED
  BY <1>5, <1>6, <1>7, <1>8 DEF IsEntry

\* Only a subtree's entry commits to a lower layer's root, and to its own.
LEMMA EntryCommits ==
  ASSUME NEW p \in Paths, NEW e, IsEntry(e), Matches(e, p),
         e.value # NoValue, HasRootKey(e.value), NEW below, Binds(e, below)
  PROVE  Append(p, e.key) \in Paths /\ below = Root[Append(p, e.key)]
<1>1. e.key \in Keys(p) /\ e.value \in Values
  BY DEF IsEntry, Matches
<1>2. e.value \in Elements /\ ValueHash(e.value) = Hashed(e.value) /\ e.value = Tree
  BY <1>1, ValueFacts, ElementFacts DEF HasRootKey, Elements
<1>3. e.hash = CombineHash(Hashed(Tree), below)
  BY <1>2 DEF Binds
<1>4. e.type = "KVValueHash"
  <2>1. e.type # "KV" /\ e.type # "KVRefValueHash"
    BY <1>2, <1>3, HashFacts DEF IsEntry
  <2>2. e.type # "KVDigest"
    BY DEF IsEntry
  <2> QED
    BY <2>1, <2>2 DEF IsEntry
<1>5. StoredHash(p, e.key) = CombineHash(Hashed(Tree), below)
  BY <1>3, <1>4 DEF Matches
<1>6. Tree # EmptyTree /\ Tree # Reference
  BY ElementFacts
<1> QED
  BY <1>1, <1>5, <1>6, StoredFacts, HashFacts

\* A frame is rooted when its layer is the grove's; what it proves then agrees
\* with the grove.
Rooted(f) == f.path \in Paths /\ f.root = Root[f.path]
FrameHolds(f) ==
  /\ f.next \in Nat \ {0} /\ Len(f.entries) \in Nat
  /\ \A j \in 1..Len(f.entries) : IsEntry(f.entries[j])
  /\ Rooted(f) => \A j \in 1..Len(f.entries) : Matches(f.entries[j], f.path)

\* A frame is below the entry that its parent is at, a subtree's.
Linked(f, g) ==
  /\ f.next =< Len(f.entries)
  /\ f.entries[f.next].value # NoValue /\ HasRootKey(f.entries[f.next].value)
  /\ g.path = Append(f.path, f.entries[f.next].key)

\* A result is grounded when it says what the grove has, its ambiguous bytes
\* among Items only; it is when some frame that is still open is rooted.
Grounded(r) ==
  /\ r.path \in Paths /\ r.key \in Keys(r.path)
  /\ r.value # NoValue =>
       IF r.type = "KVRefValueHash"
         THEN Stored(r.path, r.key) = Reference /\ r.value = Referenced
         ELSE Stored(r.path, r.key) = r.value
  /\ r.type = "KV" /\ r.ambiguous # NoValue /\ IsItem(Stored(r.path, r.key))
       => Stored(r.path, r.key) = r.ambiguous

GroundedBy(r, fs, n) == \E i \in 1..n : Rooted(fs[i]) => Grounded(r)

StoreAt ==
  /\ \A i \in 1..Len(frames) : FrameHolds(frames[i])
  /\ \A i \in 1..(Len(frames) - 1) : Linked(frames[i], frames[i + 1])
  /\ Len(results) \in Nat /\ OfLength(results, Len(results))
  /\ \A j \in 1..Len(results) : GroundedBy(results[j], frames, Len(frames))

StoreInv ==
  /\ GroveInv
  /\ outcome = "envelope" => results = << >>
  /\ outcome = "layers" => StoreAt
  /\ outcome # "verified" => items = {}
  /\ ProvenIsStored

\* A refusal proves nothing.
LEMMA RefuseStores ==
  ASSUME StoreInv, outcome # "verified", Refuse, GroveInv' PROVE StoreInv'
BY DEF StoreInv, Refuse, ProvenIsStored, Verified

\* Before the end there are no Items.
LEMMA UnverifiedStores ==
  ASSUME StoreInv, outcome # "verified", UNCHANGED <<items, request>>, outcome' = "layers",
         GroveInv', StoreAt'
  PROVE  StoreInv'
BY DEF StoreInv, ProvenIsStored, Verified

\* A new frame holds, whatever layer it has.
LEMMA NewFrameHolds ==
  ASSUME NEW p, NEW l \in LayersAt(p)
  PROVE  FrameHolds(Frame(p, l))
<1> DEFINE f == Frame(p, l)
<1>1. f.path = p /\ f.root = l.root /\ f.entries = l.entries /\ f.next = 1
  BY DEF Frame
<1>2. l \in Layers
  BY DEF LayersAt
<1>3. PICK q \in Paths : l.root = Root[q]
  BY <1>2 DEF Layers, LayerOf
<1>4. Len(l.entries) \in Nat /\ \A j \in 1..Len(l.entries) : IsEntry(l.entries[j])
  BY <1>2, <1>3, LayerMatches
<1>5. p \in Paths /\ l.root = Root[p] => \A j \in 1..Len(l.entries) : Matches(l.entries[j], p)
  BY <1>2, LayerMatches
<1> HIDE DEF f
<1>6. FrameHolds(f)
  BY <1>1, <1>4, <1>5 DEF FrameHolds, Rooted
<1> QED
  BY <1>6 DEF f

\* One more frame, below the entry the last is at.
LEMMA OpenStores ==
  ASSUME NEW n \in Nat, OfLength(frames, n), NEW p, Open(p), UNCHANGED results,
         \A i \in 1..n : FrameHolds(frames[i]),
         \A i \in 1..(n - 1) : Linked(frames[i], frames[i + 1]),
         Len(results) \in Nat, OfLength(results, Len(results)),
         \A j \in 1..Len(results) : GroundedBy(results[j], frames, n),
         n # 0 => \A g : g.path = p => Linked(frames[n], g)
  PROVE  StoreAt'
<1>1. /\ OfLength(frames', n + 1)
      /\ \A i \in 1..n : frames'[i] = frames[i]
      /\ frames'[n + 1].path = p
      /\ \E l \in LayersAt(p) : frames'[n + 1] = Frame(p, l)
  BY OpenFacts
<1>2. Len(frames') = n + 1
  BY <1>1 DEF OfLength
<1>3. FrameHolds(frames'[n + 1])
  BY <1>1, NewFrameHolds
<1>4. \A i \in 1..(n + 1) : FrameHolds(frames'[i])
  BY <1>1, <1>3
<1>5. ASSUME NEW i \in 1..((n + 1) - 1) PROVE Linked(frames'[i], frames'[i + 1])
  <2>1. i \in 1..n
    OBVIOUS
  <2>2. CASE i = n
    BY <1>1, <2>1, <2>2
  <2>3. CASE i # n
    <3>1. i \in 1..(n - 1) /\ i + 1 \in 1..n
      BY <2>1, <2>3
    <3> QED
      BY <1>1, <2>1, <3>1
  <2> QED
    BY <2>2, <2>3
<1>6. ASSUME NEW j \in 1..Len(results) PROVE GroundedBy(results[j], frames', n + 1)
  <2>1. PICK i \in 1..n : Rooted(frames[i]) => Grounded(results[j])
    BY DEF GroundedBy
  <2>2. i \in 1..(n + 1) /\ frames'[i] = frames[i]
    BY <1>1
  <2> QED
    BY <2>1, <2>2 DEF GroundedBy
<1> QED
  BY <1>2, <1>4, <1>5, <1>6 DEF StoreAt

\* The last frame goes on to its next entry.
LEMMA OnwardStores ==
  ASSUME NEW fs, NEW n \in Nat \ {0}, OfLength(fs, n), AFrame(fs[n]),
         NEW key, frames' = Advance(fs, key),
         \A i \in 1..n : FrameHolds(fs[i]),
         \A i \in 1..(n - 1) : Linked(fs[i], fs[i + 1]),
         (Len(results) \in Nat /\ OfLength(results, Len(results)))',
         \A j \in 1..Len(results') : GroundedBy(results'[j], fs, n)
  PROVE  StoreAt'
<1>1. /\ OfLength(frames', n)
      /\ \A i \in 1..(n - 1) : frames'[i] = fs[i]
      /\ frames'[n].path = fs[n].path
      /\ frames'[n].root = fs[n].root /\ frames'[n].entries = fs[n].entries
      /\ frames'[n].next = fs[n].next + 1
  BY AdvanceFacts
<1>2. Len(frames') = n
  BY <1>1 DEF OfLength
<1>3. Rooted(frames'[n]) <=> Rooted(fs[n])
  BY <1>1 DEF Rooted
<1>4. FrameHolds(frames'[n])
  <2>1. FrameHolds(fs[n])
    OBVIOUS
  <2> QED
    BY <1>1, <1>3, <2>1 DEF FrameHolds
<1>5. ASSUME NEW i \in 1..n PROVE FrameHolds(frames'[i]) /\ frames'[i].path = fs[i].path
  BY <1>1, <1>4
<1>6. ASSUME NEW i \in 1..(n - 1) PROVE Linked(frames'[i], frames'[i + 1])
  <2>1. i + 1 \in 1..n /\ frames'[i] = fs[i] /\ Linked(fs[i], fs[i + 1])
    BY <1>1
  <2>2. frames'[i + 1].path = fs[i + 1].path
    BY <1>5, <2>1
  <2> QED
    BY <2>1, <2>2 DEF Linked
<1>7. ASSUME NEW j \in 1..Len(results') PROVE GroundedBy(results'[j], frames', n)
  <2>1. PICK i \in 1..n : Rooted(fs[i]) => Grounded(results'[j])
    BY DEF GroundedBy
  <2>2. Rooted(frames'[i]) => Rooted(fs[i])
    BY <1>1, <1>3
  <2> QED
    BY <2>1, <2>2 DEF GroundedBy
<1> QED
  BY <1>2, <1>5, <1>6, <1>7 DEF StoreAt

\* The envelope's root layer is the first frame.
LEMMA EnvelopeStores ==
  ASSUME StoreInv, CheckEnvelope, GroveInv' PROVE StoreInv'
<1>1. outcome = "envelope" /\ frames = << >> /\ results = << >>
  BY DEF CheckEnvelope, StoreInv, GroveInv
<1>2. CASE Refuse
  BY <1>1, <1>2, RefuseStores
<1>3. CASE /\ Open(<< >>) /\ outcome' = "layers"
           /\ UNCHANGED <<request, shape, options, results, items, checked>>
  <2>1. OfLength(frames, 0) /\ OfLength(results, Len(results)) /\ Len(results) = 0
    BY <1>1 DEF OfLength
  <2>2. StoreAt'
    BY <1>3, <2>1, OpenStores
  <2> QED
    BY <1>1, <1>3, <2>2, UnverifiedStores
<1> QED
  BY <1>2, <1>3 DEF CheckEnvelope

\* Where the top frame is, and what its entry is.
LEMMA TopStored ==
  ASSUME StoreInv, outcome = "layers"
  PROVE  LET n == Len(frames)
         IN /\ n \in Nat \ {0} /\ OfLength(frames, n) /\ Top = frames[n]
            /\ \A i \in 1..n : AFrame(frames[i])
            /\ FrameHolds(Top) /\ StoreAt
            /\ AtEntry => /\ Top.next \in 1..Len(Top.entries) /\ IsEntry(Entry)
                          /\ Rooted(Top) => Matches(Entry, Top.path)
<1> DEFINE n == Len(frames)
<1>1. GroveAt /\ StoreAt
  BY DEF StoreInv, GroveInv
<1>2. n \in Nat \ {0} /\ Top = frames[n]
  BY <1>1, TopFacts
<1>3. OfLength(frames, n) /\ \A i \in 1..n : AFrame(frames[i])
  BY <1>1 DEF GroveAt, OnPath
<1> HIDE DEF n
<1>4. FrameHolds(Top)
  BY <1>1, <1>2 DEF StoreAt, n
<1>5. AtEntry => /\ Top.next \in 1..Len(Top.entries) /\ IsEntry(Entry)
                 /\ Rooted(Top) => Matches(Entry, Top.path)
  <2> SUFFICES ASSUME AtEntry
               PROVE  /\ Top.next \in 1..Len(Top.entries) /\ IsEntry(Entry)
                      /\ Rooted(Top) => Matches(Entry, Top.path)
    OBVIOUS
  <2>1. Top.next \in 1..Len(Top.entries)
    BY <1>4 DEF FrameHolds, AtEntry
  <2> QED
    BY <1>4, <2>1 DEF FrameHolds, Entry
<1> QED
  BY <1>1, <1>2, <1>3, <1>4, <1>5 DEF n

\* The lower layer of a subtree's entry is the next frame.
LEMMA DescendStores ==
  ASSUME StoreInv, Descend, GroveInv' PROVE StoreInv'
<1>1. outcome = "layers" /\ AtEntry
  BY DEF Descend, AtEntry
<1>2. CASE Refuse
  BY <1>1, <1>2, RefuseStores
<1>3. CASE /\ Entry.value # NoValue /\ HasRootKey(Entry.value)
           /\ Open(Append(Top.path, Entry.key))
           /\ UNCHANGED <<request, shape, options, results, outcome, items, checked>>
  <2> DEFINE n == Len(frames)
             p == Append(Top.path, Entry.key)
  <2>1. /\ n \in Nat \ {0} /\ OfLength(frames, n) /\ Top = frames[n] /\ StoreAt
        /\ Top.next \in 1..Len(Top.entries)
    BY <1>1, TopStored
  <2>2. \A g : g.path = p => Linked(Top, g)
    BY <1>3, <2>1 DEF Linked, Entry
  <2>3. /\ \A i \in 1..n : FrameHolds(frames[i])
        /\ \A i \in 1..(n - 1) : Linked(frames[i], frames[i + 1])
        /\ Len(results) \in Nat /\ OfLength(results, Len(results))
        /\ \A j \in 1..Len(results) : GroundedBy(results[j], frames, n)
    BY <2>1 DEF StoreAt
  <2>4. Open(p) /\ UNCHANGED results
    BY <1>3
  <2> HIDE DEF n, p
  <2>5. StoreAt'
    BY <2>1, <2>2, <2>3, <2>4, OpenStores
  <2> QED
    BY <1>1, <1>3, <2>5, UnverifiedStores
<1> QED
  BY <1>2, <1>3 DEF Descend

\* The result of an entry of a rooted frame is grounded.
LEMMA ResultGrounded ==
  ASSUME NEW e, IsEntry(e), e.value # NoValue, ~Contradicts(e),
         Rooted(Top), Matches(e, Top.path)
  PROVE  Grounded(Result(e))
<1> DEFINE r == Result(e)
<1>1. /\ r.path = Top.path /\ r.key = e.key /\ r.type = e.type
      /\ r.value = IF Bound(e) THEN e.value ELSE NoValue
      /\ r.ambiguous = IF Ambiguous(e) THEN e.value ELSE NoValue
  BY DEF Result
<1>2. Top.path \in Paths /\ e.key \in Keys(Top.path)
  BY DEF Rooted, Matches
<1>3. /\ Bound(e) => IF e.type = "KVRefValueHash"
                       THEN Stored(Top.path, e.key) = Reference /\ e.value = Referenced
                       ELSE Stored(Top.path, e.key) = e.value
      /\ e.type = "KV" /\ IsItem(Stored(Top.path, e.key)) => Stored(Top.path, e.key) = e.value
  BY <1>2, EntryBinds
<1> HIDE DEF r
<1>4. Grounded(r)
  BY <1>1, <1>2, <1>3 DEF Grounded
<1> QED
  BY <1>4 DEF r

\* The entry of a value is done, and its result proven.
LEMMA TakeLeafStores ==
  ASSUME StoreInv, TakeLeaf, GroveInv' PROVE StoreInv'
<1>1. outcome = "layers" /\ AtEntry /\ Entry.value # NoValue
  BY DEF TakeLeaf, AtEntry
<1>2. CASE Refuse
  BY <1>1, <1>2, RefuseStores
<1>3. CASE /\ ~Contradicts(Entry) /\ results' = Append(results, Result(Entry))
           /\ frames' = Advance(frames, {})
           /\ UNCHANGED <<request, shape, options, outcome, items, honest, checked>>
  <2> DEFINE n == Len(frames)
             r == Result(Entry)
             m == Len(results)
  <2>1. /\ n \in Nat \ {0} /\ OfLength(frames, n) /\ Top = frames[n] /\ StoreAt /\ IsEntry(Entry)
        /\ Rooted(Top) => Matches(Entry, Top.path)
        /\ \A i \in 1..n : AFrame(frames[i])
    BY <1>1, TopStored
  <2>2. Rooted(Top) => Grounded(r)
    BY <1>1, <1>3, <2>1, ResultGrounded
  <2>3. m \in Nat /\ OfLength(results, m) /\ \A j \in 1..m : GroundedBy(results[j], frames, n)
    BY <2>1 DEF StoreAt
  <2>4. results' = Append(results, r)
    BY <1>3
  <2> HIDE DEF n, r, m
  <2>5. /\ OfLength(results', m + 1) /\ results'[m + 1] = r
        /\ \A j \in 1..m : results'[j] = results[j]
    <3> DEFINE S == {results[j] : j \in 1..m} \cup {r}
    <3>1. results \in Seq(S) /\ r \in S /\ Len(results) = m
      BY <2>3 DEF OfLength
    <3> HIDE DEF S
    <3> QED
      BY <2>3, <2>4, <3>1 DEF OfLength
  <2>6. GroundedBy(r, frames, n)
    BY <2>1, <2>2 DEF GroundedBy
  <2>7. Len(results') = m + 1
    BY <2>5 DEF OfLength
  <2>8. \A j \in 1..Len(results') : GroundedBy(results'[j], frames, n)
    <3> SUFFICES ASSUME NEW j \in 1..(m + 1) PROVE GroundedBy(results'[j], frames, n)
      BY <2>7
    <3> QED
      BY <2>3, <2>5, <2>6
  <2>9. /\ \A i \in 1..n : FrameHolds(frames[i])
        /\ \A i \in 1..(n - 1) : Linked(frames[i], frames[i + 1])
    BY <2>1 DEF StoreAt, n
  <2>10. (Len(results) \in Nat /\ OfLength(results, Len(results)))'
    BY <2>3, <2>5, <2>7
  <2>11. AFrame(frames[n])
    BY <2>1
  <2>12. StoreAt'
    BY <1>3, <2>1, <2>8, <2>9, <2>10, <2>11, OnwardStores
  <2> QED
    BY <1>1, <1>3, <2>12, UnverifiedStores
<1> QED
  BY <1>2, <1>3 DEF TakeLeaf

\* A KVDigest's is done.
LEMMA TakeDigestStores ==
  ASSUME StoreInv, TakeDigest, GroveInv' PROVE StoreInv'
<1> DEFINE n == Len(frames)
<1>1. /\ outcome = "layers" /\ frames' = Advance(frames, {})
      /\ UNCHANGED <<request, results, outcome, items>>
  BY DEF TakeDigest, AtEntry
<1>2. /\ n \in Nat \ {0} /\ OfLength(frames, n) /\ StoreAt
      /\ \A i \in 1..n : AFrame(frames[i])
  BY <1>1, TopStored
<1>3. /\ \A i \in 1..n : FrameHolds(frames[i])
      /\ \A i \in 1..(n - 1) : Linked(frames[i], frames[i + 1])
      /\ Len(results) \in Nat /\ OfLength(results, Len(results))
      /\ \A j \in 1..Len(results) : GroundedBy(results[j], frames, n)
  BY <1>2 DEF StoreAt
<1> HIDE DEF n
<1>4. AFrame(frames[n])
  BY <1>2
<1>5. /\ (Len(results) \in Nat /\ OfLength(results, Len(results)))'
      /\ \A j \in 1..Len(results') : GroundedBy(results'[j], frames, n)
  BY <1>1, <1>3
<1>6. StoreAt'
  BY <1>1, <1>2, <1>3, <1>4, <1>5, OnwardStores
<1> QED
  BY <1>1, <1>6, UnverifiedStores

\* The parent of a rooted frame's layer vouches for it.
LEMMA ReturnStores ==
  ASSUME StoreInv, Return, GroveInv' PROVE StoreInv'
<1> DEFINE n == Len(frames)
           fs == Front(frames)
           e == Last(fs).entries[Last(fs).next]
<1>1. outcome = "layers" /\ n > 1
  BY DEF Return, AtEnd
<1>2. CASE Refuse
  BY <1>1, <1>2, RefuseStores
<1>3. CASE /\ Binds(e, Top.root) /\ frames' = Advance(fs, {e.key})
           /\ checked' = checked \cup {Top.path}
           /\ UNCHANGED <<request, shape, options, results, outcome, items, honest>>
  <2>1. /\ n \in Nat \ {0} /\ OfLength(frames, n) /\ Top = frames[n] /\ StoreAt
        /\ \A i \in 1..n : AFrame(frames[i])
    BY <1>1, TopStored
  <2>2. /\ \A i \in 1..n : FrameHolds(frames[i])
        /\ \A i \in 1..(n - 1) : Linked(frames[i], frames[i + 1])
        /\ Len(results) \in Nat /\ OfLength(results, Len(results))
        /\ \A j \in 1..Len(results) : GroundedBy(results[j], frames, n)
    BY <2>1 DEF StoreAt
  <2>3. OfLength(fs, n - 1) /\ \A i \in 1..(n - 1) : fs[i] = frames[i]
    BY <2>1 DEF OfLength, Front
  <2> HIDE DEF n, fs
  <2>4. n - 1 \in Nat \ {0} /\ n - 1 \in 1..n /\ n - 1 \in 1..(n - 1) /\ (n - 1) + 1 = n
    BY <1>1, <2>1
  <2>5. Last(fs) = frames[n - 1]
    BY <2>3, <2>4 DEF OfLength, Last
  <2> DEFINE g == frames[n - 1]
  <2>6. FrameHolds(g) /\ Linked(g, frames[n]) /\ AFrame(g)
    BY <2>1, <2>2, <2>4
  <2>7. e = g.entries[g.next]
    BY <2>5
  <2> HIDE DEF e, g
  <2>8. /\ IsEntry(e) /\ e.value # NoValue /\ HasRootKey(e.value)
        /\ Rooted(g) => Matches(e, g.path)
        /\ frames[n].path = Append(g.path, e.key)
    <3>1. g.next \in 1..Len(g.entries)
      BY <2>6 DEF FrameHolds, Linked
    <3> QED
      BY <2>6, <2>7, <3>1 DEF FrameHolds, Linked
  <2>9. Rooted(g) => Rooted(frames[n])
    <3> SUFFICES ASSUME Rooted(g) PROVE Rooted(frames[n])
      OBVIOUS
    <3>1. g.path \in Paths /\ Matches(e, g.path)
      BY <2>8 DEF Rooted
    <3>2. Binds(e, frames[n].root)
      BY <1>3, <2>1
    <3>3. Append(g.path, e.key) \in Paths /\ frames[n].root = Root[Append(g.path, e.key)]
      BY <2>8, <3>1, <3>2, EntryCommits
    <3> QED
      BY <2>8, <3>3 DEF Rooted
  <2>10. ASSUME NEW j \in 1..Len(results') PROVE GroundedBy(results'[j], fs, n - 1)
    <3>1. PICK i \in 1..n : Rooted(frames[i]) => Grounded(results[j])
      BY <1>3, <2>2, <2>10 DEF GroundedBy
    <3>2. CASE i = n
      <4>1. Rooted(fs[n - 1]) => Grounded(results[j])
        BY <2>3, <2>4, <2>9, <3>1, <3>2 DEF g
      <4> QED
        BY <1>3, <2>4, <4>1 DEF GroundedBy
    <3>3. CASE i # n
      <4>1. i \in 1..(n - 1) /\ fs[i] = frames[i]
        BY <2>3, <2>4, <3>3
      <4> QED
        BY <1>3, <3>1, <4>1 DEF GroundedBy
    <3> QED
      BY <3>2, <3>3
  <2>11. /\ \A i \in 1..(n - 1) : FrameHolds(fs[i])
         /\ \A i \in 1..((n - 1) - 1) : Linked(fs[i], fs[i + 1])
    <3>1. \A i \in 1..((n - 1) - 1) : i \in 1..(n - 1) /\ i + 1 \in 1..(n - 1)
      BY <2>1
    <3>2. \A i \in 1..(n - 1) : i \in 1..n
      BY <2>1
    <3> QED
      BY <2>2, <2>3, <3>1, <3>2
  <2>12. (Len(results) \in Nat /\ OfLength(results, Len(results)))'
    BY <1>3, <2>2
  <2>13. AFrame(fs[n - 1])
    BY <2>3, <2>4, <2>6 DEF g
  <2> DEFINE m == n - 1
  <2>14. StoreAt'
    <3>1. m \in Nat \ {0} /\ OfLength(fs, m) /\ AFrame(fs[m])
      BY <2>3, <2>4, <2>13
    <3>2. /\ \A i \in 1..m : FrameHolds(fs[i])
          /\ \A i \in 1..(m - 1) : Linked(fs[i], fs[i + 1])
          /\ \A j \in 1..Len(results') : GroundedBy(results'[j], fs, m)
      BY <2>10, <2>11
    <3>3. frames' = Advance(fs, {e.key})
      BY <1>3
    <3> HIDE DEF m
    <3> QED
      BY <2>12, <3>1, <3>2, <3>3, OnwardStores
  <2> QED
    BY <1>1, <1>3, <2>14, UnverifiedStores
<1> QED
  BY <1>2, <1>3 DEF Return

\* The root frame is rooted when its root is the chain's.
LEMMA FinishStores ==
  ASSUME StoreInv, Finish, GroveInv' PROVE StoreInv'
<1>1. outcome = "layers" /\ Len(frames) = 1
  BY DEF Finish, AtEnd
<1>2. CASE Refuse
  BY <1>1, <1>2, RefuseStores
<1>3. CASE /\ Top.root = Root[<< >>] /\ outcome' = "verified"
           /\ items' = ItemsOf(results, request)
           /\ UNCHANGED <<request, shape, options, frames, results, honest, checked>>
  <2>1. Top = frames[1] /\ StoreAt /\ GroveAt
    BY <1>1, TopStored DEF StoreInv, GroveInv
  <2>2. Top.path = << >>
    <3>1. request \in Requests /\ Top.path = SubSeq(request.path, 1, 1 - 1)
      BY <1>1, <2>1 DEF GroveAt, OnPath
    <3> QED
      BY <3>1, PathFacts
  <2>3. Rooted(frames[1])
    BY <1>3, <2>1, <2>2, GroveAssumption DEF Rooted
  <2>4. ASSUME NEW r \in ToSet(results) PROVE Grounded(r)
    <3>1. PICK j \in 1..Len(results) : r = results[j]
      <4>1. DOMAIN results = 1..Len(results)
        BY <2>1 DEF StoreAt, OfLength
      <4> QED
        BY <4>1 DEF ToSet
    <3>2. PICK i \in 1..1 : Rooted(frames[i]) => Grounded(r)
      BY <1>1, <2>1, <3>1 DEF StoreAt, GroundedBy
    <3> QED
      BY <2>3, <3>2
  <2>5. ASSUME NEW x \in ItemsOf(results, request)
        PROVE  x.key \in Keys(request.path) /\ Stored(request.path, x.key) = x.value
    <3>1. PICK r \in ToSet(results) :
             /\ r.type = "KV" /\ r.path = request.path
             /\ x = [key |-> r.key,
                     value |-> IF r.value = NoValue /\ request.only THEN r.ambiguous ELSE r.value]
      BY DEF ItemsOf
    <3>2. x.value # NoValue
      BY DEF ItemsOf
    <3>3. Grounded(r)
      BY <2>4
    <3>4. CASE r.value = NoValue /\ request.only
      <4>1. request \in Requests
        BY DEF StoreInv, GroveInv
      <4>2. r.key \in Keys(request.path)
        BY <3>1, <3>3 DEF Grounded
      <4>3. IsItem(Stored(request.path, r.key))
        BY <3>4, <4>1, <4>2, RequestsAssumption DEF Stored
      <4>4. x.key = r.key /\ x.value = r.ambiguous
        BY <3>1, <3>4
      <4> QED
        BY <3>1, <3>2, <3>3, <4>2, <4>3, <4>4 DEF Grounded
    <3>5. CASE ~(r.value = NoValue /\ request.only)
      <4>1. x.key = r.key /\ x.value = r.value
        BY <3>1, <3>5
      <4> QED
        BY <3>1, <3>2, <3>3, <4>1 DEF Grounded
    <3> QED
      BY <3>4, <3>5
  <2>6. ProvenIsStored'
    <3>1. \A r \in ToSet(results') : Grounded(r)
      BY <1>3, <2>4
    <3>2. \A x \in items' : x.key \in Keys(request'.path) /\ Stored(request'.path, x.key) = x.value
      BY <1>3, <2>5
    <3> QED
      BY <3>1, <3>2 DEF ProvenIsStored, Grounded
  <2> QED
    BY <1>3, <2>6 DEF StoreInv
<1> QED
  BY <1>2, <1>3 DEF Finish

\* What the frames and the results say agrees with the grove, if a frame that
\* is still open is rooted.
THEOREM StoreInvariant == GroveSpec => []StoreInv
<1>1. GroveInit => StoreInv
  <2>1. GroveInit => GroveInv
    BY DEF GroveInit, GroveInv
  <2> QED
    BY <2>1 DEF GroveInit, StoreInv, ProvenIsStored, Verified
<1>2. StoreInv /\ GroveInv' /\ [GroveNext]_groveVars => StoreInv'
  <2> SUFFICES ASSUME StoreInv, GroveInv', [GroveNext]_groveVars PROVE StoreInv'
    OBVIOUS
  <2>1. CASE CheckEnvelope
    BY <2>1, EnvelopeStores
  <2>2. CASE Malformed
    BY <2>2 DEF Malformed, StoreInv, ProvenIsStored, Verified
  <2>3. CASE Descend
    BY <2>3, DescendStores
  <2>4. CASE TakeLeaf
    BY <2>4, TakeLeafStores
  <2>5. CASE TakeDigest
    BY <2>5, TakeDigestStores
  <2>6. CASE Return
    BY <2>6, ReturnStores
  <2>7. CASE Finish
    BY <2>7, FinishStores
  <2>8. CASE UNCHANGED groveVars
    <3>1. StoreAt => StoreAt'
      BY <2>8 DEF groveVars, StoreAt, OfLength, GroundedBy
    <3>2. ProvenIsStored'
      BY <2>8 DEF groveVars, StoreInv, ProvenIsStored, Verified
    <3> QED
      BY <2>8, <3>1, <3>2 DEF groveVars, StoreInv
  <2> QED
    BY <2>1, <2>2, <2>3, <2>4, <2>5, <2>6, <2>7, <2>8 DEF GroveNext
<1>3. GroveSpec => []GroveInv
  BY GroveInvariant
<1> QED
  BY <1>1, <1>2, <1>3, PTL DEF GroveSpec

\* Every value a verified proof gives is what the chain stores.
THEOREM ProvenValuesAreStored == GroveSpec => []ProvenIsStored
<1>1. StoreInv => ProvenIsStored
  BY DEF StoreInv
<1> QED
  BY <1>1, StoreInvariant, PTL

-----------------------------------------------------------------------------

(* Honest proofs are accepted *)

\* The entry the chain's prover makes for an element.
LEMMA HonestEntryFacts ==
  ASSUME NEW p \in Paths, NEW k \in Keys(p)
  PROVE  LET h == HonestEntry(p, k)
         IN \/ IsItem(Stored(p, k)) /\ h.type = "KV" /\ h.value = Stored(p, k)
            \/ Stored(p, k) = Reference /\ h.type = "KVRefValueHash" /\ h.value = Referenced
            \/ /\ Stored(p, k) \in {Tree, EmptyTree} /\ h.type = "KVValueHash"
               /\ h.value = Stored(p, k) /\ h.hash = StoredHash(p, k)
<1> DEFINE h == HonestEntry(p, k)
           e == Stored(p, k)
<1>1. e \in Elements
  BY KeyFacts DEF Stored
<1>2. ~IsItem(Tree) /\ ~IsItem(EmptyTree) /\ ~IsItem(Reference)
      /\ Reference # Tree /\ Reference # EmptyTree
  BY ElementFacts DEF IsItem
<1>3. CASE e \in {Item, OtherItem, LongItem}
  <2>1. IsItem(e)
    BY <1>3, ElementFacts DEF IsItem
  <2>2. Visited(Node("KV", k, e, NoHash))
          = <<[type |-> "KV", key |-> k, value |-> e, hash |-> ValueHash(e)]>>
    BY DEF Visited, Node
  <2>3. h = [type |-> "KV", key |-> k, value |-> e, hash |-> ValueHash(e)]
    <3>1. e # Reference /\ e = Grove[p][k]
      BY <1>2, <2>1 DEF Stored
    <3>2. h = Visited(Node("KV", k, e, NoHash))[1]
      BY <2>1, <3>1 DEF HonestEntry
    <3> QED
      BY <2>2, <3>2
  <2> QED
    BY <2>1, <2>3
<1>4. CASE e = Reference
  BY <1>2, <1>4 DEF HonestEntry, Node, Stored
<1>5. CASE e \in {Tree, EmptyTree}
  BY <1>2, <1>5 DEF HonestEntry, Node, Stored
<1> QED
  BY <1>1, <1>3, <1>4, <1>5 DEF Elements

\* An honest frame is the chain's; its lower layers' keys are consumed or ahead.
HonestFrame(f) ==
  /\ Rooted(f)
  /\ \A j \in 1..Len(f.entries) :
       /\ f.entries[j].key \in Keys(f.path)
       /\ f.entries[j] = HonestEntry(f.path, f.entries[j].key)
  /\ \A k \in LowerKeys(f.path) :
       k \in f.consumed \/ \E j \in f.next..Len(f.entries) : f.entries[j].key = k

\* The result of an Item's honest entry is its bytes, held back if they are 63.
HonestResult(r) ==
  r.type = "KV" =>
    LET e == Stored(r.path, r.key)
    IN /\ IsItem(e) /\ e # NoValue
       /\ r.value = IF Is63(e) THEN NoValue ELSE e
       /\ r.ambiguous = IF Is63(e) THEN e ELSE NoValue

HonestLayers ==
  /\ \A i \in 1..Len(frames) : HonestFrame(frames[i])
  /\ \A j \in 1..Len(results) : HonestResult(results[j])

HonestInv ==
  /\ honest => /\ options /\ shape = HonestShape(request.path)
               /\ outcome = "layers" => HonestLayers
  /\ HonestAccepted

\* What is left unproven before the end refuses nothing.
LEMMA OpenHonest ==
  ASSUME outcome' \notin {"refused", "verified"},
         honest' => options' /\ (shape = HonestShape(request.path))' /\ HonestLayers'
  PROVE  HonestInv'
BY DEF HonestInv, HonestAccepted, Verified

\* The chain's prover sends what check_envelope asks for.
LEMMA HonestDescends ==
  ASSUME request \in Requests, shape = HonestShape(request.path)
  PROVE  Descends(request.path)
<1> DEFINE path == request.path
           n == Len(path)
<1>1. /\ n \in Nat \ {0} /\ path \in Seq(1..2)
      /\ \A i \in 0..n : Len(SubSeq(path, 1, i)) = i /\ SubSeq(path, 1, i) \in Seq(1..2)
      /\ SubSeq(path, 1, n) = path
      /\ \A i \in 1..n : Append(SubSeq(path, 1, i - 1), path[i]) = SubSeq(path, 1, i)
  BY PathFacts
<1>2. \A i \in 1..n : path[i] \in {1, 2}
  BY <1>1
<1> HIDE DEF path, n
<1>3. \A s \in Seq(1..2), k \in {1, 2}, j \in {1, 2} :
        Len(Append(s, k)) = Len(s) + 1 /\ (Append(s, k) = Append(s, j) => k = j)
  OBVIOUS
<1>4. \A i \in 0..n, j \in 1..n : SubSeq(path, 1, i) = SubSeq(path, 1, j) => i = j
  BY <1>1
<1>5. shape = {SubSeq(path, 1, i) : i \in 1..n}
  BY DEF HonestShape, path, n
<1>6. ASSUME NEW i \in 1..n PROVE LowerKeys(SubSeq(path, 1, i - 1)) = {path[i]}
  <2> DEFINE s == SubSeq(path, 1, i - 1)
  <2>1. s \in Seq(1..2) /\ Len(s) = i - 1 /\ Append(s, path[i]) = SubSeq(path, 1, i)
    BY <1>1
  <2> HIDE DEF s
  <2>2. path[i] \in LowerKeys(s)
    BY <1>2, <1>5, <2>1 DEF LowerKeys
  <2>3. ASSUME NEW k \in LowerKeys(s) PROVE k = path[i]
    <3>1. k \in {1, 2}
      BY DEF LowerKeys
    <3>2. PICK j \in 1..n : Append(s, k) = SubSeq(path, 1, j)
      BY <1>5 DEF LowerKeys
    <3>3. Len(Append(s, k)) = i
      BY <1>3, <2>1, <3>1
    <3>4. j = i
      BY <1>1, <3>2, <3>3
    <3> QED
      BY <1>2, <1>3, <2>1, <3>1, <3>2, <3>4
  <2> QED
    BY <2>2, <2>3 DEF s
<1>7. LowerKeys(path) = {}
  <2> SUFFICES ASSUME NEW k \in LowerKeys(path) PROVE FALSE
    OBVIOUS
  <2>1. k \in {1, 2}
    BY DEF LowerKeys
  <2>2. PICK j \in 1..n : Append(path, k) = SubSeq(path, 1, j)
    BY <1>5 DEF LowerKeys
  <2>3. Len(Append(path, k)) = n + 1
    BY <1>1, <1>3, <2>1 DEF n
  <2> QED
    BY <1>1, <2>2, <2>3
<1> QED
  BY <1>6, <1>7 DEF Descends, path, n

\* A new frame of an honest proof is honest.
LEMMA OpenHonestFrame ==
  ASSUME NEW n \in Nat, OfLength(frames, n), NEW p, Open(p), honest'
  PROVE  /\ honest /\ HonestFrame(frames'[n + 1])
         /\ OfLength(frames', n + 1) /\ \A i \in 1..n : frames'[i] = frames[i]
<1>1. PICK l \in LayersAt(p) :
        /\ frames' = Append(frames, Frame(p, l))
        /\ honest' = (honest /\ IsHonest(p, l))
  BY DEF Open
<1>2. honest /\ IsHonest(p, l)
  BY <1>1
<1> DEFINE f == Frame(p, l)
           T == {frames[i] : i \in 1..n} \cup {f}
<1>3. frames \in Seq(T) /\ f \in T /\ Len(frames) = n
  BY DEF OfLength
<1>4. /\ f.path = p /\ f.root = l.root /\ f.entries = l.entries
      /\ f.next = 1 /\ f.consumed = {}
  BY DEF Frame
<1>5. frames' = Append(frames, f)
  BY <1>1
<1> HIDE DEF T, f
<1>6. OfLength(frames', n + 1) /\ (\A i \in 1..n : frames'[i] = frames[i]) /\ frames'[n + 1] = f
  BY <1>3, <1>5 DEF OfLength
<1>7. p \in Paths /\ l.root = Root[p] /\ l \in Layers
  BY <1>2 DEF IsHonest, LayersAt
<1>8. /\ Len(l.entries) \in Nat /\ DOMAIN l.entries = 1..Len(l.entries)
      /\ \A j \in 1..Len(l.entries) : l.entries[j].key \in Keys(p)
  BY <1>7, LayerMatches DEF Matches
<1>9. ToSet(l.entries) = {l.entries[j] : j \in 1..Len(l.entries)}
  BY <1>8 DEF ToSet
<1>10. \A j \in 1..Len(l.entries) : l.entries[j] = HonestEntry(p, l.entries[j].key)
  BY <1>2, <1>9 DEF IsHonest
<1>11. \A k \in LowerKeys(p) : \E j \in 1..Len(l.entries) : l.entries[j].key = k
  BY <1>2, <1>9 DEF IsHonest
<1>12. HonestFrame(f)
  BY <1>4, <1>7, <1>8, <1>10, <1>11 DEF HonestFrame, Rooted
<1> QED
  BY <1>2, <1>6, <1>12

\* The last frame goes on past an entry that has no lower layer, or whose
\* lower layer is consumed.
LEMMA OnwardHonest ==
  ASSUME NEW fs, NEW n \in Nat \ {0}, OfLength(fs, n), AFrame(fs[n]), FrameHolds(fs[n]),
         NEW key, frames' = Advance(fs, key), UNCHANGED shape,
         \A i \in 1..n : HonestFrame(fs[i]),
         fs[n].next =< Len(fs[n].entries),
         LET e == fs[n].entries[fs[n].next]
         IN e.key \in LowerKeys(fs[n].path) => e.key \in key,
         \A j \in 1..Len(results') : HonestResult(results'[j])
  PROVE  HonestLayers'
<1> DEFINE f == fs[n]
           g == frames'[n]
<1>1. /\ OfLength(frames', n)
      /\ \A i \in 1..(n - 1) : frames'[i] = fs[i]
      /\ g.path = f.path /\ g.root = f.root /\ g.entries = f.entries
      /\ g.next = f.next + 1 /\ g.consumed = f.consumed \cup key
  BY AdvanceFacts
<1>2. Len(frames') = n
  BY <1>1 DEF OfLength
<1>3. HonestFrame(f) /\ f.next \in Nat \ {0} /\ Len(f.entries) \in Nat
  BY DEF FrameHolds
<1> DEFINE e == f.entries[f.next]
<1>4. f.next =< Len(f.entries) /\ (e.key \in LowerKeys(f.path) => e.key \in key)
  OBVIOUS
<1> HIDE DEF f, g
<1>5. ASSUME NEW k \in LowerKeys(g.path)
      PROVE  k \in g.consumed \/ \E j \in g.next..Len(g.entries) : g.entries[j].key = k
  <2>1. k \in LowerKeys(f.path)
    BY <1>1
  <2>2. CASE k \in f.consumed
    BY <1>1, <2>2
  <2>3. CASE \E j \in f.next..Len(f.entries) : f.entries[j].key = k
    <3>1. PICK j \in f.next..Len(f.entries) : f.entries[j].key = k
      BY <2>3
    <3>2. CASE j = f.next
      BY <1>1, <1>4, <2>1, <3>1, <3>2
    <3>3. CASE j # f.next
      <4>1. j \in g.next..Len(g.entries)
        BY <1>1, <1>3, <3>1, <3>3
      <4> QED
        BY <1>1, <3>1, <4>1
    <3> QED
      BY <3>2, <3>3
  <2> QED
    BY <1>3, <2>1, <2>2, <2>3 DEF HonestFrame
<1>6. HonestFrame(g)
  BY <1>1, <1>3, <1>5 DEF HonestFrame, Rooted
<1>7. ASSUME NEW i \in 1..n PROVE HonestFrame(frames'[i])
  BY <1>1, <1>6 DEF g
<1> QED
  BY <1>2, <1>7 DEF HonestLayers, HonestFrame, LowerKeys

\* An honest proof's envelope passes.
LEMMA EnvelopeHonest ==
  ASSUME HonestInv, StoreInv, CheckEnvelope PROVE HonestInv'
<1>1. request \in Requests /\ frames = << >> /\ results = << >>
  BY DEF CheckEnvelope, StoreInv, GroveInv
<1>2. CASE options /\ Descends(request.path)
  <2>1. /\ Open(<< >>) /\ outcome' = "layers"
        /\ UNCHANGED <<request, shape, options, results, items, checked>>
    BY <1>2 DEF CheckEnvelope
  <2>2. ASSUME honest' PROVE options' /\ (shape = HonestShape(request.path))' /\ HonestLayers'
    <3>1. OfLength(frames, 0) /\ 0 \in Nat
      BY <1>1 DEF OfLength
    <3>2. honest /\ HonestFrame(frames'[0 + 1]) /\ OfLength(frames', 0 + 1)
      BY <2>1, <2>2, <3>1, OpenHonestFrame
    <3>3. options /\ shape = HonestShape(request.path)
      BY <3>2 DEF HonestInv
    <3>4. Len(frames') = 1 /\ HonestFrame(frames'[1])
      BY <3>2 DEF OfLength
    <3>5. HonestLayers'
      BY <1>1, <2>1, <3>4 DEF HonestLayers, HonestFrame, LowerKeys
    <3> QED
      BY <2>1, <3>3, <3>5 DEF HonestShape
  <2> QED
    BY <2>1, <2>2, OpenHonest
<1>3. CASE ~(options /\ Descends(request.path))
  <2>1. ~honest
    BY <1>1, <1>3, HonestDescends DEF HonestInv
  <2> QED
    BY <1>3, <2>1 DEF CheckEnvelope, Refuse, HonestInv, HonestAccepted
<1> QED
  BY <1>2, <1>3

\* The entry the top frame of an honest proof is at.
LEMMA TopHonest ==
  ASSUME HonestInv, StoreInv, honest, AtEntry
  PROVE  /\ HonestFrame(Top) /\ Entry.key \in Keys(Top.path)
         /\ Entry = HonestEntry(Top.path, Entry.key)
         /\ Top.next \in 1..Len(Top.entries)
<1>1. outcome = "layers"
  BY DEF AtEntry
<1>2. /\ Len(frames) \in Nat \ {0} /\ Top = frames[Len(frames)]
      /\ Top.next \in 1..Len(Top.entries)
  BY <1>1, TopStored
<1>3. HonestFrame(Top)
  BY <1>1, <1>2 DEF HonestInv, HonestLayers
<1> QED
  BY <1>2, <1>3 DEF HonestFrame, Entry

\* The entry above an honest lower layer is its tree's.
LEMMA DescendHonest ==
  ASSUME HonestInv, StoreInv, Descend PROVE HonestInv'
<1>1. outcome = "layers" /\ AtEntry /\ HasLower /\ GroveAt
  BY DEF Descend, AtEntry, StoreInv, GroveInv
<1>2. honest => Entry.value # NoValue /\ HasRootKey(Entry.value)
  <2> SUFFICES ASSUME honest PROVE Entry.value # NoValue /\ HasRootKey(Entry.value)
    OBVIOUS
  <2> DEFINE n == Len(frames)
             path == request.path
  <2>1. /\ n \in Nat \ {0} /\ n =< Len(path) + 1 /\ Len(path) \in Nat \ {0}
        /\ Top.path = SubSeq(path, 1, n - 1)
        /\ n =< Len(path) => LowerKeys(Top.path) = {path[n]}
        /\ n = Len(path) + 1 => LowerKeys(Top.path) = {}
    BY <1>1, TopFacts
  <2>2. n \in 1..Len(path) /\ Entry.key = path[n]
    BY <1>1, <2>1 DEF HasLower
  <2>3. path \in Paths
    BY <1>1, RequestsAssumption DEF GroveAt
  <2>4. Grove[SubSeq(path, 1, n - 1)][path[n]] = Tree
    BY <2>2, <2>3, GroveAssumption
  <2>5. Stored(Top.path, Entry.key) = Tree
    BY <2>1, <2>2, <2>4 DEF Stored
  <2>6. /\ Top.path \in Paths /\ Entry.key \in Keys(Top.path)
        /\ Entry = HonestEntry(Top.path, Entry.key)
    BY <1>1, TopHonest DEF HonestFrame, Rooted
  <2>7. ~IsItem(Tree) /\ Tree # Reference /\ HasRootKey(Tree) /\ Tree # NoValue
    BY ElementFacts DEF IsItem, HasRootKey
  <2> QED
    BY <2>5, <2>6, <2>7, HonestEntryFacts
<1>3. CASE ~(Entry.value # NoValue /\ HasRootKey(Entry.value))
  BY <1>2, <1>3 DEF Descend, Refuse, HonestInv, HonestAccepted
<1>4. CASE Entry.value # NoValue /\ HasRootKey(Entry.value)
  <2> DEFINE n == Len(frames)
             p == Append(Top.path, Entry.key)
  <2>1. /\ Open(p)
        /\ UNCHANGED <<request, shape, options, results, outcome, items, checked>>
    BY <1>4 DEF Descend
  <2>2. n \in Nat \ {0} /\ OfLength(frames, n)
    BY <1>1, TopStored
  <2> HIDE DEF n, p
  <2>3. ASSUME honest' PROVE options' /\ (shape = HonestShape(request.path))' /\ HonestLayers'
    <3>1. /\ honest /\ HonestFrame(frames'[n + 1]) /\ OfLength(frames', n + 1)
          /\ \A i \in 1..n : frames'[i] = frames[i]
      BY <2>1, <2>2, <2>3, OpenHonestFrame
    <3>2. options /\ shape = HonestShape(request.path) /\ HonestLayers
      BY <1>1, <3>1 DEF HonestInv
    <3>3. Len(frames') = n + 1
      BY <3>1 DEF OfLength
    <3>4. ASSUME NEW i \in 1..(n + 1) PROVE HonestFrame(frames'[i])
      <4>1. CASE i = n + 1
        BY <3>1, <4>1
      <4>2. CASE i # n + 1
        <5>1. i \in 1..n
          BY <2>2, <4>2
        <5> QED
          BY <3>1, <3>2, <5>1 DEF HonestLayers, n
      <4> QED
        BY <4>1, <4>2
    <3>5. HonestLayers'
      BY <2>1, <3>2, <3>3, <3>4 DEF HonestLayers, HonestFrame, LowerKeys
    <3> QED
      BY <2>1, <3>2, <3>5 DEF HonestShape
  <2> QED
    BY <1>1, <2>1, <2>3, OpenHonest
<1> QED
  BY <1>3, <1>4

\* An honest entry's bytes are never contradicted, and an Item's are the result.
LEMMA HonestLeaf ==
  ASSUME HonestInv, StoreInv, honest, AtEntry
  PROVE  ~Contradicts(Entry) /\ HonestResult(Result(Entry))
<1> DEFINE e == Entry
           p == Top.path
           r == Result(e)
<1>1. /\ p \in Paths /\ e.key \in Keys(p) /\ e = HonestEntry(p, e.key)
  BY TopHonest DEF HonestFrame, Rooted
<1>2. \/ IsItem(Stored(p, e.key)) /\ e.type = "KV" /\ e.value = Stored(p, e.key)
      \/ Stored(p, e.key) = Reference /\ e.type = "KVRefValueHash" /\ e.value = Referenced
      \/ /\ Stored(p, e.key) \in {Tree, EmptyTree} /\ e.type = "KVValueHash"
         /\ e.value = Stored(p, e.key) /\ e.hash = StoredHash(p, e.key)
  BY <1>1, HonestEntryFacts
<1>3. /\ r.path = p /\ r.key = e.key /\ r.type = e.type
      /\ r.value = IF Bound(e) THEN e.value ELSE NoValue
      /\ r.ambiguous = IF Ambiguous(e) THEN e.value ELSE NoValue
  BY DEF Result
<1>4. Stored(p, e.key) # NoValue
  <2>1. Stored(p, e.key) \in Elements
    BY <1>1, KeyFacts DEF Stored
  <2> QED
    BY <2>1, ElementFacts DEF Elements
<1> HIDE DEF r, p, e
<1>5. ~Contradicts(e)
  <2>1. CASE e.type = "KVValueHash"
    <3>1. Stored(p, e.key) \in {Tree, EmptyTree} /\ e.value = Stored(p, e.key)
          /\ e.hash = StoredHash(p, e.key)
      BY <1>2, <2>1
    <3>2. CASE e.value = Tree
      BY <3>2, ElementFacts DEF Contradicts, HasRootKey
    <3>3. CASE e.value = EmptyTree
      <4>1. IsTree(EmptyTree)
        BY ElementFacts DEF IsTree
      <4>2. EmptyTree \in Values /\ ValueHash(EmptyTree) = Hashed(EmptyTree)
        <5>1. EmptyTree \in Values
          BY DEF Values, Elements
        <5> QED
          BY <5>1, ValueFacts, ElementFacts
      <4>3. StoredHash(p, e.key) = CombineHash(Hashed(EmptyTree), NullHash)
        <5>1. EmptyTree # Tree /\ EmptyTree # Reference /\ ~IsItem(EmptyTree)
          BY ElementFacts DEF IsItem
        <5> QED
          BY <1>1, <3>1, <3>3, <5>1, StoredFacts
      <4> QED
        BY <3>1, <3>3, <4>1, <4>2, <4>3 DEF Contradicts
    <3> QED
      BY <3>1, <3>2, <3>3
  <2> QED
    BY <2>1 DEF Contradicts
<1>6. HonestResult(r)
  <2> SUFFICES ASSUME e.type = "KV"
               PROVE  /\ IsItem(Stored(p, e.key)) /\ Stored(p, e.key) # NoValue
                      /\ r.value = IF Is63(Stored(p, e.key)) THEN NoValue ELSE Stored(p, e.key)
                      /\ r.ambiguous = IF Is63(Stored(p, e.key)) THEN Stored(p, e.key) ELSE NoValue
    BY <1>3 DEF HonestResult
  <2>1. IsItem(Stored(p, e.key)) /\ e.value = Stored(p, e.key)
    BY <1>2
  <2>2. Ambiguous(e) <=> Is63(Stored(p, e.key))
    BY <2>1 DEF Ambiguous
  <2>3. Bound(e) <=> ~Is63(Stored(p, e.key))
    BY <2>2 DEF Bound
  <2> QED
    BY <1>3, <1>4, <2>1, <2>2, <2>3
<1> QED
  BY <1>5, <1>6 DEF e, r

\* The entry of a value, or of none, is done.
LEMMA TakeHonest ==
  ASSUME HonestInv, StoreInv, AtEntry, ~HasLower, frames' = Advance(frames, {}),
         UNCHANGED <<request, shape, options, outcome, honest>>,
         honest => \A j \in 1..Len(results') : HonestResult(results'[j])
  PROVE  HonestInv'
<1> DEFINE n == Len(frames)
<1>1. outcome = "layers"
  BY DEF AtEntry
<1>2. /\ n \in Nat \ {0} /\ OfLength(frames, n) /\ Top = frames[n]
      /\ \A i \in 1..n : AFrame(frames[i])
      /\ FrameHolds(Top) /\ Top.next \in 1..Len(Top.entries)
  BY <1>1, TopStored
<1>3. ASSUME honest PROVE HonestLayers'
  <2>1. \A i \in 1..n : HonestFrame(frames[i])
    BY <1>1, <1>3 DEF HonestInv, HonestLayers
  <2>2. Top.next =< Len(Top.entries) /\ Top.entries[Top.next].key \notin LowerKeys(Top.path)
    BY <1>2 DEF HasLower, Entry, AtEntry
  <2> HIDE DEF n
  <2>3. AFrame(frames[n]) /\ FrameHolds(frames[n])
    BY <1>2
  <2> QED
    BY <1>2, <1>3, <2>1, <2>2, <2>3, OnwardHonest
<1>4. honest => options' /\ (shape = HonestShape(request.path))'
  BY DEF HonestInv, HonestShape
<1>5. outcome' \notin {"refused", "verified"}
  BY <1>1
<1> QED
  BY <1>3, <1>4, <1>5, OpenHonest

\* A value's entry is never contradicted.
LEMMA TakeLeafHonest ==
  ASSUME HonestInv, StoreInv, TakeLeaf PROVE HonestInv'
<1>1. AtEntry /\ ~HasLower /\ outcome = "layers"
  BY DEF TakeLeaf, AtEntry
<1>2. CASE Contradicts(Entry)
  <2>1. ~honest
    BY <1>1, <1>2, HonestLeaf
  <2> QED
    BY <1>2, <2>1 DEF TakeLeaf, Refuse, HonestInv, HonestAccepted
<1>3. CASE ~Contradicts(Entry)
  <2> DEFINE r == Result(Entry)
             m == Len(results)
  <2>1. /\ results' = Append(results, r) /\ frames' = Advance(frames, {})
        /\ UNCHANGED <<request, shape, options, outcome, honest>>
    BY <1>3 DEF TakeLeaf
  <2>2. m \in Nat /\ OfLength(results, m)
    BY <1>1 DEF StoreInv, StoreAt
  <2>3. honest => HonestResult(r) /\ \A j \in 1..m : HonestResult(results[j])
    BY <1>1, HonestLeaf DEF HonestInv, HonestLayers
  <2> HIDE DEF r, m
  <2>4. Len(results') = m + 1 /\ results'[m + 1] = r /\ \A j \in 1..m : results'[j] = results[j]
    <3> DEFINE S == {results[j] : j \in 1..m} \cup {r}
    <3>1. results \in Seq(S) /\ r \in S /\ Len(results) = m
      BY <2>2 DEF OfLength
    <3> HIDE DEF S
    <3> QED
      BY <2>1, <2>2, <3>1 DEF OfLength
  <2>5. honest => \A j \in 1..Len(results') : HonestResult(results'[j])
    <3> SUFFICES ASSUME honest, NEW j \in 1..(m + 1) PROVE HonestResult(results'[j])
      BY <2>4
    <3> QED
      BY <2>2, <2>3, <2>4
  <2> QED
    BY <1>1, <2>1, <2>5, TakeHonest
<1> QED
  BY <1>2, <1>3

\* A KVDigest's entry is passed over.
LEMMA TakeDigestHonest ==
  ASSUME HonestInv, StoreInv, TakeDigest PROVE HonestInv'
<1>1. /\ AtEntry /\ ~HasLower /\ outcome = "layers" /\ frames' = Advance(frames, {})
      /\ UNCHANGED <<request, shape, options, results, outcome, honest>>
  BY DEF TakeDigest, AtEntry
<1>2. honest => \A j \in 1..Len(results') : HonestResult(results'[j])
  BY <1>1 DEF HonestInv, HonestLayers
<1> QED
  BY <1>1, <1>2, TakeHonest

\* Everything an honest layer has below it is consumed at its end.
LEMMA HonestConsumed ==
  ASSUME HonestInv, StoreInv, honest, AtEnd
  PROVE  HonestFrame(Top) /\ Unproven = {}
<1>1. /\ Len(frames) \in Nat \ {0} /\ Top = frames[Len(frames)] /\ FrameHolds(Top)
      /\ outcome = "layers" /\ Top.next > Len(Top.entries)
  BY TopStored DEF AtEnd
<1>2. HonestFrame(Top)
  BY <1>1 DEF HonestInv, HonestLayers
<1>3. \A j \in Top.next..Len(Top.entries) : FALSE
  BY <1>1 DEF FrameHolds
<1> QED
  BY <1>2, <1>3 DEF HonestFrame, Unproven

\* An honest parent's entry commits to the layer below it.
LEMMA ReturnHonest ==
  ASSUME HonestInv, StoreInv, Return PROVE HonestInv'
<1> DEFINE n == Len(frames)
           fs == Front(frames)
           e == Last(fs).entries[Last(fs).next]
           g == frames[n - 1]
<1>1. outcome = "layers" /\ AtEnd /\ n > 1
  BY DEF Return, AtEnd
<1>2. /\ n \in Nat \ {0} /\ OfLength(frames, n) /\ Top = frames[n] /\ StoreAt
      /\ \A i \in 1..n : AFrame(frames[i])
  BY <1>1, TopStored
<1>3. /\ \A i \in 1..n : FrameHolds(frames[i])
      /\ \A i \in 1..(n - 1) : Linked(frames[i], frames[i + 1])
  BY <1>2 DEF StoreAt
<1>4. OfLength(fs, n - 1) /\ \A i \in 1..(n - 1) : fs[i] = frames[i]
  BY <1>2 DEF OfLength, Front
<1>5. honest => \A i \in 1..n : HonestFrame(frames[i])
  BY <1>1 DEF HonestInv, HonestLayers
<1> HIDE DEF n, fs
<1>6. n - 1 \in Nat \ {0} /\ n - 1 \in 1..n /\ n - 1 \in 1..(n - 1) /\ (n - 1) + 1 = n
  BY <1>1, <1>2
<1>7. Last(fs) = g
  BY <1>4, <1>6 DEF OfLength, Last
<1>8. /\ FrameHolds(g) /\ Linked(g, Top) /\ AFrame(g) /\ fs[n - 1] = g
      /\ honest => HonestFrame(g)
  BY <1>2, <1>3, <1>4, <1>5, <1>6
<1>9. e = g.entries[g.next]
  BY <1>7
<1>10. g.next \in 1..Len(g.entries) /\ g.next =< Len(g.entries)
  BY <1>8 DEF FrameHolds, Linked
<1> HIDE DEF e, g
<1>11. /\ e.value # NoValue /\ HasRootKey(e.value) /\ Top.path = Append(g.path, e.key)
  BY <1>8, <1>9 DEF Linked
<1>12. honest => Unproven = {} /\ Binds(e, Top.root)
  <2> SUFFICES ASSUME honest PROVE Unproven = {} /\ Binds(e, Top.root)
    OBVIOUS
  <2>1. HonestFrame(Top) /\ Unproven = {}
    BY <1>1, HonestConsumed
  <2>2. /\ g.path \in Paths /\ e.key \in Keys(g.path) /\ e = HonestEntry(g.path, e.key)
    BY <1>8, <1>9, <1>10 DEF HonestFrame, Rooted
  <2>3. e.value = Tree /\ Stored(g.path, e.key) = Tree /\ e.hash = StoredHash(g.path, e.key)
    <3>1. /\ ~HasRootKey(Referenced) /\ ~HasRootKey(EmptyTree)
          /\ \A v : IsItem(v) => ~HasRootKey(v)
      BY ElementFacts DEF HasRootKey, Referenced, IsItem
    <3> QED
      BY <1>11, <2>2, <3>1, HonestEntryFacts
  <2>4. StoredHash(g.path, e.key) = CombineHash(Hashed(Tree), Root[Append(g.path, e.key)])
    <3>1. Tree # EmptyTree /\ Tree # Reference /\ ~IsItem(Tree)
      BY ElementFacts DEF IsItem
    <3> QED
      BY <2>2, <2>3, <3>1, StoredFacts
  <2>5. ValueHash(Tree) = Hashed(Tree)
    BY ElementFacts DEF ValueHash
  <2>6. Top.root = Root[Append(g.path, e.key)]
    BY <1>11, <2>1 DEF HonestFrame, Rooted
  <2> QED
    BY <2>1, <2>3, <2>4, <2>5, <2>6 DEF Binds
<1>13. CASE ~(Unproven = {} /\ Binds(e, Top.root))
  <2>1. Refuse
    BY <1>13 DEF Return, e, fs
  <2> QED
    BY <1>12, <1>13, <2>1 DEF Refuse, HonestInv, HonestAccepted
<1>14. CASE Unproven = {} /\ Binds(e, Top.root)
  <2>1. /\ frames' = Advance(fs, {e.key})
        /\ UNCHANGED <<request, shape, options, results, outcome, items, honest>>
    BY <1>14 DEF Return, e, fs
  <2>2. ASSUME honest PROVE HonestLayers'
    <3> DEFINE m == n - 1
    <3>1. /\ m \in Nat \ {0} /\ OfLength(fs, m) /\ AFrame(fs[m]) /\ FrameHolds(fs[m])
      BY <1>4, <1>6, <1>8
    <3>2. \A i \in 1..m : HonestFrame(fs[i])
      <4>1. \A i \in 1..m : i \in 1..n
        BY <1>2
      <4> QED
        BY <1>4, <1>5, <2>2, <4>1
    <3>3. /\ fs[m].next =< Len(fs[m].entries)
          /\ fs[m].entries[fs[m].next].key \in {e.key}
      BY <1>8, <1>9, <1>10
    <3>4. \A j \in 1..Len(results') : HonestResult(results'[j])
      BY <1>1, <2>1, <2>2 DEF HonestInv, HonestLayers
    <3> HIDE DEF m
    <3> QED
      BY <2>1, <3>1, <3>2, <3>3, <3>4, OnwardHonest
  <2>3. honest => options' /\ (shape = HonestShape(request.path))'
    BY <2>1 DEF HonestInv, HonestShape
  <2>4. outcome' \notin {"refused", "verified"}
    BY <1>1, <2>1
  <2> QED
    BY <2>1, <2>2, <2>3, <2>4, OpenHonest
<1> QED
  BY <1>13, <1>14

\* An honest root layer has the chain's root, and the Items are given.
LEMMA FinishHonest ==
  ASSUME HonestInv, StoreInv, Finish PROVE HonestInv'
<1>1. outcome = "layers" /\ AtEnd /\ Len(frames) = 1 /\ GroveAt /\ StoreAt
  BY DEF Finish, AtEnd, StoreInv, GroveInv
<1>2. honest => Unproven = {} /\ Top.root = Root[<< >>]
  <2> SUFFICES ASSUME honest PROVE Unproven = {} /\ Top.root = Root[<< >>]
    OBVIOUS
  <2>1. HonestFrame(Top) /\ Unproven = {}
    BY <1>1, HonestConsumed
  <2>2. Top.path = << >>
    <3>1. Top.path = SubSeq(request.path, 1, 1 - 1) /\ request \in Requests
      BY <1>1, TopFacts DEF GroveAt
    <3> QED
      BY <3>1, PathFacts
  <2> QED
    BY <2>1, <2>2 DEF HonestFrame, Rooted
<1>3. CASE ~(Unproven = {} /\ Top.root = Root[<< >>])
  BY <1>2, <1>3 DEF Finish, Refuse, HonestInv, HonestAccepted
<1>4. CASE Unproven = {} /\ Top.root = Root[<< >>]
  <2>1. /\ outcome' = "verified" /\ items' = ItemsOf(results, request)
        /\ UNCHANGED <<request, shape, options, frames, results, honest, checked>>
    BY <1>4 DEF Finish
  <2>2. ASSUME honest, NEW r \in ToSet(results), r.path = request.path, r.type = "KV",
               request.only \/ ~Is63(Stored(request.path, r.key))
        PROVE  [key |-> r.key, value |-> Stored(request.path, r.key)] \in ItemsOf(results, request)
    <3> DEFINE e == Stored(request.path, r.key)
               x == [key |-> r.key,
                     value |-> IF r.value = NoValue /\ request.only THEN r.ambiguous ELSE r.value]
    <3>1. PICK j \in 1..Len(results) : r = results[j]
      <4>1. DOMAIN results = 1..Len(results)
        BY <1>1 DEF StoreAt, OfLength
      <4> QED
        BY <4>1 DEF ToSet
    <3>2. HonestResult(r)
      BY <1>1, <2>2, <3>1 DEF HonestInv, HonestLayers
    <3>3. /\ IsItem(e) /\ e # NoValue
          /\ r.value = IF Is63(e) THEN NoValue ELSE e
          /\ r.ambiguous = IF Is63(e) THEN e ELSE NoValue
      BY <2>2, <3>2 DEF HonestResult
    <3> HIDE DEF e
    <3>4. x = [key |-> r.key, value |-> e]
      BY <2>2, <3>3 DEF e
    <3>5. x \in ItemsOf(results, request)
      BY <2>2, <3>3, <3>4 DEF ItemsOf
    <3> QED
      BY <3>4, <3>5 DEF e
  <2>3. HonestAccepted'
    <3>1. honest' => outcome' # "refused"
      BY <2>1
    <3>2. ASSUME honest', NEW r \in ToSet(results'), r.path = request'.path, r.type = "KV",
                 request'.only \/ ~Is63(Stored(request'.path, r.key))
          PROVE  [key |-> r.key, value |-> Stored(request'.path, r.key)] \in items'
      BY <2>1, <2>2, <3>2
    <3> QED
      BY <3>1, <3>2 DEF HonestAccepted
  <2> QED
    BY <2>1, <2>3 DEF HonestInv, HonestShape
<1> QED
  BY <1>3, <1>4

\* What the chain's own prover makes is verified, and its Items given.
THEOREM HonestProofsAreAccepted == GroveSpec => []HonestAccepted
<1>1. GroveInit => HonestInv
  BY DEF GroveInit, HonestInv, HonestAccepted, Verified
<1>2. HonestInv /\ StoreInv /\ [GroveNext]_groveVars => HonestInv'
  <2> SUFFICES ASSUME HonestInv, StoreInv, [GroveNext]_groveVars PROVE HonestInv'
    OBVIOUS
  <2>1. CASE CheckEnvelope
    BY <2>1, EnvelopeHonest
  <2>2. CASE Malformed
    BY <2>2 DEF Malformed, HonestInv, HonestAccepted
  <2>3. CASE Descend
    BY <2>3, DescendHonest
  <2>4. CASE TakeLeaf
    BY <2>4, TakeLeafHonest
  <2>5. CASE TakeDigest
    BY <2>5, TakeDigestHonest
  <2>6. CASE Return
    BY <2>6, ReturnHonest
  <2>7. CASE Finish
    BY <2>7, FinishHonest
  <2>8. CASE UNCHANGED groveVars
    <3>1. HonestLayers => HonestLayers'
      BY <2>8 DEF groveVars, HonestLayers, HonestFrame, LowerKeys
    <3>2. HonestAccepted'
      BY <2>8 DEF groveVars, HonestInv, HonestAccepted, Verified
    <3> QED
      BY <2>8, <3>1, <3>2 DEF groveVars, HonestInv, HonestShape
  <2> QED
    BY <2>1, <2>2, <2>3, <2>4, <2>5, <2>6, <2>7, <2>8 DEF GroveNext
<1>3. HonestInv => HonestAccepted
  BY DEF HonestInv
<1>4. GroveSpec => []StoreInv
  BY StoreInvariant
<1> QED
  BY <1>1, <1>2, <1>3, <1>4, PTL DEF GroveSpec
=============================================================================
