----------------------- MODULE GatewayRecoveryProofs -----------------------
(***************************************************************************)
(* Accounts and reservations across restarts of the gateway, for every     *)
(* number of accounts, engines, crashes and faults: accounts survive       *)
(* (AccountsPersist), what is reserved is accounted for, and what is       *)
(* rebuilt covers the orders it was rebuilt from.                          *)
(***************************************************************************)
EXTENDS GatewayRecovery, SumTheorems, SequenceTheorems

\* A cancel of the order, whatever symbol it names.
Cancels(i) == \E e \in Engines : CancelOrder(i, e)

\* What every start of the gateway ends up with: the accounts before the first damaged frame,
\* or, if there are none, all of them, from a snapshot or created again.
Kept == IF Replayed = {} THEN Accounts ELSE Replayed

Shape ==
    /\ journal \in Seq(Frames)
    /\ stage \in {"down", "create", "connect", "query", "serve"}

\* While accounts are created, the journal has exactly them and nothing was served or saved
\* before; or its first frame is damaged, and nothing behind it is ever read.
Creating ==
    \/ journal # <<>> /\ Replayed = {}
    \/ /\ Replayed = Known /\ \A i \in 1 .. Len(journal) : journal[i].cut = "no"
       /\ served = {} /\ snapshots = {}

Persist ==
    /\ stage \in {"connect", "query", "serve"} => Known = Kept /\ journal # <<>>
    /\ stage = "create" => Creating
    /\ \A f \in snapshots : f.loads => DOMAIN f.data = Kept
    /\ served \subseteq Kept
    /\ journal = <<>> => served = {} /\ snapshots = {}

PersistInv == Shape /\ (~append_failed => Persist)

-----------------------------------------------------------------------------
(* The journal *)

\* A journal that is read to no account is empty or damaged in its first frame.
LEMMA NothingRead ==
    ASSUME journal \in Seq(Frames), journal # <<>>
    PROVE  Replayed = {} <=> journal[1].cut # "no"
<1>1. Len(journal) \in Nat /\ Len(journal) >= 1
  OBVIOUS
<1>2. ASSUME journal[1].cut = "no" PROVE Replayed # {}
  <2>1. 1 \in {j \in 1 .. Len(journal) : Intact(j)}
    BY <1>1, <1>2 DEF Intact
  <2> QED BY <2>1 DEF Replayed
<1>3. ASSUME journal[1].cut # "no" PROVE Replayed = {}
  <2>1. \A j \in 1 .. Len(journal) : 1 \in 1 .. j /\ ~Intact(j)
    BY <1>1, <1>3 DEF Intact
  <2> QED BY <2>1 DEF Replayed
<1> QED BY <1>2, <1>3

\* Whatever is read is an account, and a start never ends up without any.
LEMMA KeptAccounts ==
    ASSUME journal \in Seq(Frames)
    PROVE  Replayed \subseteq Accounts /\ Kept \subseteq Accounts /\ Kept # {}
<1>0. \A i \in 1 .. Len(journal) : journal[i] \in Frames
  OBVIOUS
<1>1. \A i \in 1 .. Len(journal) : journal[i].account_id \in Accounts
  BY <1>0 DEF Frames
<1>2. Replayed \subseteq Accounts
  BY <1>1 DEF Replayed
<1>3. 1 \in Accounts
  BY GatewayRecoveryAssumption DEF Accounts
<1> QED BY <1>2, <1>3 DEF Kept

\* A frame behind a damaged first one is never read; a complete frame behind complete ones is.
LEMMA AppendReplayed ==
    ASSUME journal \in Seq(Frames), NEW a \in Accounts, NEW c \in Cuts \cup {"no"},
           journal' = Appended(a, c)
    PROVE  /\ journal' \in Seq(Frames) /\ journal' # <<>>
           /\ journal # <<>> /\ Replayed = {} => Replayed' = {}
           /\ (c = "no" /\ \A i \in 1 .. Len(journal) : journal[i].cut = "no")
                => /\ Replayed' = Replayed \cup {a}
                   /\ \A i \in 1 .. Len(journal') : journal'[i].cut = "no"
<1> DEFINE n == Len(journal)
           frame == [account_id |-> a, cut |-> c]
<1>1. frame \in Frames
  BY DEF Frames
<1>2. /\ n \in Nat /\ journal' = Append(journal, frame)
      /\ journal' \in Seq(Frames) /\ Len(journal') = n + 1 /\ journal'[n + 1] = frame
      /\ \A i \in 1 .. n : journal'[i] = journal[i]
  BY <1>1 DEF Appended
<1>3. journal' # <<>>
  BY <1>2
<1>4. ASSUME journal # <<>>, Replayed = {} PROVE Replayed' = {}
  <2>1. n >= 1 /\ journal[1].cut # "no"
    BY <1>4, <1>2, NothingRead
  <2>2. journal'[1].cut # "no"
    BY <2>1, <1>2
  <2>3. \A j \in 1 .. Len(journal') : 1 \in 1 .. j /\ ~(\A k \in 1 .. j : journal'[k].cut = "no")
    BY <2>2, <1>2
  <2> QED BY <2>3 DEF Replayed, Intact
<1>5. ASSUME c = "no", \A i \in 1 .. n : journal[i].cut = "no"
      PROVE  /\ Replayed' = Replayed \cup {a}
             /\ \A i \in 1 .. Len(journal') : journal'[i].cut = "no"
  <2>1. \A i \in 1 .. Len(journal') : journal'[i].cut = "no"
    BY <1>2, <1>5
  <2>2. Replayed = {journal[i].account_id : i \in 1 .. n}
    <3>1. \A j \in 1 .. n : Intact(j)
      BY <1>2, <1>5 DEF Intact
    <3>2. {j \in 1 .. Len(journal) : Intact(j)} = 1 .. n
      BY <3>1
    <3> QED BY <3>2 DEF Replayed
  <2>3. Replayed' = {journal'[i].account_id : i \in 1 .. (n + 1)}
    <3>1. \A j \in 1 .. Len(journal') : Intact(j)'
      BY <1>2, <2>1 DEF Intact
    <3>2. {j \in 1 .. Len(journal') : Intact(j)'} = 1 .. (n + 1)
      BY <3>1, <1>2
    <3>3. Replayed' = {journal'[i].account_id : i \in {j \in 1 .. Len(journal') : Intact(j)'}}
      BY DEF Replayed
    <3> QED BY <3>2, <3>3
  <2>4. \A i \in 1 .. (n + 1) : i \in 1 .. n \/ i = n + 1
    BY <1>2
  <2>5. n + 1 \in 1 .. (n + 1) /\ \A i \in 1 .. n : i \in 1 .. (n + 1)
    BY <1>2
  <2>6. journal'[n + 1].account_id = a
    BY <1>2
  <2>7. ASSUME NEW x PROVE x \in Replayed' <=> x \in Replayed \cup {a}
    <3>1. ASSUME x \in Replayed' PROVE x \in Replayed \cup {a}
      BY <3>1, <2>2, <2>3, <2>4, <2>6, <1>2
    <3>2. ASSUME x \in Replayed PROVE x \in Replayed'
      BY <3>2, <2>2, <2>3, <2>5, <1>2
    <3>3. a \in Replayed'
      BY <2>3, <2>5, <2>6
    <3> QED BY <3>1, <3>2, <3>3
  <2> QED BY <2>1, <2>7
<1> QED BY <1>2, <1>3, <1>4, <1>5

-----------------------------------------------------------------------------
(* The invariant *)

\* The first start satisfies the invariant.
LEMMA PersistInit == Init => PersistInv
<1> SUFFICES ASSUME Init PROVE PersistInv
  OBVIOUS
<1>1. journal = <<>> /\ stage = "down" /\ served = {} /\ snapshots = {}
  BY DEF Init
<1> QED BY <1>1 DEF PersistInv, Shape, Persist

\* A start reads the journal over the latest snapshot, if there is one.
LEMMA LoadPersists ==
    ASSUME PersistInv, LoadAccounts
    PROVE  PersistInv'
<1>1. /\ UNCHANGED <<journal, snapshots, served, append_failed>>
      /\ stage' \in {"create", "connect"}
  BY DEF LoadAccounts, disk
<1>2. Shape' /\ Replayed' = Replayed /\ Kept' = Kept
  BY <1>1 DEF PersistInv, Shape, Replayed, Kept, Intact
<1> SUFFICES ASSUME ~append_failed PROVE Persist'
  BY <1>1, <1>2 DEF PersistInv
<1>3. Persist /\ journal \in Seq(Frames)
  BY DEF PersistInv, Shape
<1>4. \/ snapshots = {} /\ Known' = Replayed
      \/ snapshots # {} /\ Known' = Replayed \cup Kept
  <2>1. CASE snapshots = {} /\ accounts' = ReplayJournal(Nobody)
    BY <2>1 DEF Known, ReplayJournal, Nobody
  <2>2. ASSUME NEW f \in snapshots, f.loads, accounts' = ReplayJournal(RestoreFromSnapshot(f.data))
        PROVE  snapshots # {} /\ Known' = Replayed \cup Kept
    <3>1. DOMAIN f.data = Kept
      BY <2>2, <1>3 DEF Persist
    <3>2. DOMAIN RestoreFromSnapshot(f.data) = Kept
      BY <3>1 DEF RestoreFromSnapshot
    <3> QED BY <2>2, <3>2 DEF Known, ReplayJournal
  <2> QED BY <2>1, <2>2 DEF LoadAccounts
<1>5. stage' = IF Known' = {} THEN "create" ELSE "connect"
  BY DEF LoadAccounts, Known
<1>6. Kept # {} /\ (Replayed # {} => Kept = Replayed)
  BY <1>3, KeptAccounts DEF Kept
<1>7. ASSUME stage' = "connect" PROVE Known' = Kept /\ journal # <<>>
  <2>1. Known' # {}
    BY <1>5, <1>7
  <2>2. journal = <<>> => Replayed = {}
    BY DEF Replayed
  <2>3. journal # <<>>
    BY <2>1, <2>2, <1>3, <1>4 DEF Persist
  <2> QED BY <2>1, <2>3, <1>4, <1>6 DEF Kept
<1>8. ASSUME stage' = "create" PROVE Creating'
  <2>1. Known' = {} /\ snapshots = {} /\ Replayed = {}
    BY <1>4, <1>5, <1>6, <1>8
  <2>2. CASE journal # <<>>
    BY <2>1, <2>2, <1>1, <1>2 DEF Creating
  <2>3. CASE journal = <<>>
    BY <2>1, <2>3, <1>1, <1>2, <1>3 DEF Creating, Persist
  <2> QED BY <2>2, <2>3
<1> QED BY <1>1, <1>2, <1>3, <1>7, <1>8 DEF Persist

\* Accounts are created behind a journal that has exactly the ones before, or is unreadable.
LEMMA CreatePersists ==
    ASSUME PersistInv, NEW a \in Accounts, CreateAccount(a)
    PROVE  PersistInv'
<1>1. stage = "create" /\ Known = 1 .. (a - 1) /\ UNCHANGED <<snapshots, served>>
  BY DEF CreateAccount, IsNext
<1>2. journal \in Seq(Frames) /\ stage' \in {"create", "connect"}
  BY DEF PersistInv, Shape, CreateAccount
<1>3. CASE journal' = Appended(a, "no") /\ append_failed' = append_failed
  <2>1. /\ journal' \in Seq(Frames) /\ journal' # <<>>
        /\ journal # <<>> /\ Replayed = {} => Replayed' = {}
        /\ (\A i \in 1 .. Len(journal) : journal[i].cut = "no")
             => /\ Replayed' = Replayed \cup {a}
                /\ \A i \in 1 .. Len(journal') : journal'[i].cut = "no"
    BY <1>2, <1>3, AppendReplayed
  <2> SUFFICES ASSUME ~append_failed PROVE Persist'
    BY <2>1, <1>2, <1>3 DEF PersistInv, Shape
  <2>2. Persist /\ Creating
    BY <1>1 DEF PersistInv, Persist
  <2>3. a \in Int /\ Known' = 1 .. a
    BY <1>1 DEF CreateAccount, Known, Accounts
  <2>4. stage' = "connect" => Known' = Accounts
    BY <2>3 DEF CreateAccount, Accounts
  <2>5. CASE journal # <<>> /\ Replayed = {}
    <3>1. Replayed' = {} /\ Kept' = Accounts /\ Kept = Accounts
      BY <2>1, <2>5 DEF Kept
    <3> QED BY <3>1, <2>1, <2>2, <2>4, <1>1, <1>2 DEF Persist, Creating
  <2>6. CASE /\ Replayed = Known /\ \A i \in 1 .. Len(journal) : journal[i].cut = "no"
             /\ served = {} /\ snapshots = {}
    <3>0. (1 .. (a - 1)) \cup {a} = 1 .. a
      BY DEF Accounts
    <3>1. Replayed' = 1 .. a /\ \A i \in 1 .. Len(journal') : journal'[i].cut = "no"
      BY <3>0, <2>1, <2>6, <1>1
    <3>2. Kept' = Known'
      <4>1. a \in 1 .. a
        BY <2>3 DEF Accounts
      <4> QED BY <4>1, <3>1, <2>3 DEF Kept
    <3> QED BY <3>1, <3>2, <2>1, <2>3, <2>6, <1>1, <1>2 DEF Persist, Creating
  <2> QED BY <2>2, <2>5, <2>6 DEF Creating
<1>4. CASE journal' \in CutAppend(a) /\ append_failed' = TRUE
  <2>1. journal' = journal \/ \E c \in Cuts \cup {"no"} : journal' = Appended(a, c)
    BY <1>4 DEF CutAppend
  <2>2. journal' \in Seq(Frames)
    BY <2>1, <1>2, AppendReplayed
  <2> QED BY <2>2, <1>2, <1>4 DEF PersistInv, Shape
<1> QED BY <1>3, <1>4 DEF CreateAccount

\* A crash leaves the journal as it is or with a frame more, perhaps a damaged one.
LEMMA CrashPersists ==
    ASSUME PersistInv, GatewayCrash \/ CrashWhileWriting
    PROVE  PersistInv'
<1>1. /\ stage' = "down" /\ UNCHANGED <<served, append_failed>>
  BY DEF GatewayCrash, CrashWhileWriting, Dies
<1>2. journal \in Seq(Frames) /\ stage \in {"down", "create", "connect", "query", "serve"}
  BY DEF PersistInv, Shape
<1>3. CASE UNCHANGED <<journal, snapshots>>
  <2>1. Replayed' = Replayed /\ Kept' = Kept
    BY <1>3 DEF Replayed, Kept, Intact
  <2> QED BY <2>1, <1>1, <1>2, <1>3 DEF PersistInv, Shape, Persist
<1>4. ASSUME NEW a \in Accounts, NEW c \in Cuts \cup {"no"}, IsNext(a), journal' = Appended(a, c),
             snapshots' = snapshots
      PROVE  PersistInv'
  <2>1. /\ journal' \in Seq(Frames) /\ journal' # <<>>
        /\ journal # <<>> /\ Replayed = {} => Replayed' = {}
    BY <1>2, <1>4, AppendReplayed
  <2> SUFFICES ASSUME ~append_failed PROVE Persist'
    BY <2>1, <1>1 DEF PersistInv, Shape
  <2>2. Persist /\ Creating
    BY <1>4 DEF PersistInv, Persist, IsNext
  <2>3. CASE journal # <<>> /\ Replayed = {}
    BY <2>1, <2>2, <2>3, <1>1, <1>4 DEF Persist, Kept
  <2>4. CASE served = {} /\ snapshots = {}
    BY <2>1, <2>4, <1>1, <1>4 DEF Persist
  <2> QED BY <2>2, <2>3, <2>4 DEF Creating
<1>5. ASSUME stage = "serve", snapshots' \in CutSave(updates + 1), journal' = journal
      PROVE  PersistInv'
  <2>1. Replayed' = Replayed /\ Kept' = Kept
    BY <1>5 DEF Replayed, Kept, Intact
  <2> SUFFICES ASSUME ~append_failed PROVE Persist'
    BY <1>1, <1>2, <1>5 DEF PersistInv, Shape
  <2>2. Persist /\ Known = Kept /\ journal # <<>>
    BY <1>5 DEF PersistInv, Persist
  <2>3. \A f \in snapshots' : f.loads => DOMAIN f.data = Kept
    <3>1. DOMAIN CreateSnapshot = Kept
      BY <2>2 DEF CreateSnapshot
    <3> QED BY <3>1, <2>2, <1>5 DEF CutSave, WithSnapshot, Persist
  <2> QED BY <2>1, <2>2, <2>3, <1>1, <1>5 DEF Persist
<1>6. CASE GatewayCrash
  BY <1>3, <1>6 DEF GatewayCrash, disk
<1>7. CASE CrashWhileWriting
  BY <1>4, <1>5, <1>7 DEF CrashWhileWriting
<1> QED BY <1>6, <1>7

\* A saved snapshot has the accounts the gateway serves.
LEMMA TickPersists ==
    ASSUME PersistInv, Tick
    PROVE  PersistInv'
<1>1. /\ stage = "serve" /\ UNCHANGED <<stage, accounts, journal, served, append_failed>>
  BY DEF Tick
<1>2. Replayed' = Replayed /\ Kept' = Kept /\ Known' = Known
  BY <1>1 DEF Replayed, Kept, Intact, Known
<1> SUFFICES ASSUME ~append_failed PROVE Persist'
  BY <1>1 DEF PersistInv, Shape
<1>3. Persist /\ Known = Kept /\ journal # <<>>
  BY <1>1 DEF PersistInv, Persist
<1>4. DOMAIN CreateSnapshot = Kept
  BY <1>3 DEF CreateSnapshot
<1>5. \A f \in snapshots' : f.loads => DOMAIN f.data = Kept
  <2>1. CASE snapshots' = snapshots
    BY <2>1, <1>3 DEF Persist
  <2>2. CASE snapshots' = Newest(WithSnapshot(updates + 1, TRUE, CreateSnapshot))
    BY <2>2, <1>3, <1>4 DEF Persist, Newest, WithSnapshot
  <2>3. CASE snapshots' \in CutSave(updates + 1)
    BY <2>3, <1>3, <1>4 DEF Persist, CutSave, WithSnapshot
  <2> QED BY <2>1, <2>2, <2>3 DEF Tick
<1> QED BY <1>1, <1>2, <1>3, <1>5 DEF Persist

\* A step that changes neither files nor the set of accounts, and serves only accounts that
\* exist, keeps the invariant.
LEMMA OtherPersists ==
    ASSUME PersistInv, UNCHANGED <<journal, snapshots, append_failed>>,
           \/ stage' = stage /\ Known' = Known
           \/ stage = "connect" /\ stage' = "query" /\ Known' = Known
           \/ stage = "query" /\ stage' = "serve" /\ Known' = Known
           \/ stage' = "down",
           served' = served \/ (stage = "query" /\ served' = served \cup Known)
    PROVE  PersistInv'
<1>1. Replayed' = Replayed /\ Kept' = Kept
  BY DEF Replayed, Kept, Intact
<1> SUFFICES ASSUME ~append_failed PROVE Persist'
  BY DEF PersistInv, Shape
<1>2. Persist
  BY DEF PersistInv
<1>3. served' \subseteq Kept
  BY <1>2 DEF Persist
<1>4. stage' = "create" => stage = "create" /\ Known' = Known
  OBVIOUS
<1>5. journal = <<>> => served' = {}
  BY <1>2 DEF Persist
<1> QED BY <1>1, <1>2, <1>3, <1>4, <1>5 DEF Persist, Creating

\* Every step keeps the invariant.
LEMMA PersistStep == PersistInv /\ [Next]_vars => PersistInv'
<1> SUFFICES ASSUME PersistInv, [Next]_vars PROVE PersistInv'
  OBVIOUS
<1> USE DEF disk, gateway, engines, history
<1>1. CASE LoadAccounts
  BY <1>1, LoadPersists
<1>2. ASSUME NEW a \in Accounts, CreateAccount(a) PROVE PersistInv'
  BY <1>2, CreatePersists
<1>3. CASE Connect
  BY <1>3, OtherPersists DEF Connect, Known
<1>4. CASE ConnectFails
  BY <1>4, OtherPersists DEF ConnectFails
<1>5. CASE ReceiveAnswer
  <2>1. ASSUME NEW reports, accounts' = Rebuild(reports) PROVE Known' = Known
    BY <2>1 DEF Rebuild, Known
  <2>2. \/ UNCHANGED <<stage, accounts, served>>
        \/ stage = "query" /\ stage' = "serve" /\ Known' = Known /\ served' = served \cup Known
    BY <1>5, <2>1 DEF ReceiveAnswer, StartServing
  <2>3. UNCHANGED <<journal, snapshots, append_failed>>
    BY <1>5 DEF ReceiveAnswer
  <2> QED BY <2>2, <2>3, OtherPersists DEF Known
<1>6. CASE Timeout
  BY <1>6, OtherPersists DEF Timeout, TimedOut, StartServing, Known
<1>7. ASSUME NEW i \in Ids, PlaceOrder(i) PROVE PersistInv'
  BY <1>7, OtherPersists DEF PlaceOrder, Reserve, Known
<1>8. ASSUME NEW i \in Ids, Cancels(i) PROVE PersistInv'
  BY <1>8, OtherPersists DEF Cancels, CancelOrder, Known
<1>9. CASE HandleEvent
  <2>1. Known' = Known
    BY <1>9 DEF HandleEvent, Reserve, Known
  <2> QED BY <1>9, <2>1, OtherPersists DEF HandleEvent
<1>10. CASE Tick
  BY <1>10, TickPersists
<1>11. CASE GatewayCrash \/ CrashWhileWriting
  BY <1>11, CrashPersists
<1>12. ASSUME NEW e \in Engines, EngineAnswers(e) \/ EngineSaves(e) PROVE PersistInv'
  BY <1>12, OtherPersists DEF EngineAnswers, EngineSaves, Known
<1>13. ASSUME NEW i \in Ids, EngineFills(i) PROVE PersistInv'
  BY <1>13, OtherPersists DEF EngineFills, Known
<1>14. ASSUME NEW e \in Engines, EngineExits(e) \/ EngineCrashes(e) \/ EngineStarts(e)
       PROVE  PersistInv'
  BY <1>14, OtherPersists DEF EngineExits, EngineCrashes, EngineStarts, LosesGateway, Known
<1>15. CASE UNCHANGED vars
  BY <1>15, OtherPersists DEF vars, Known
<1> QED BY <1>1, <1>2, <1>3, <1>4, <1>5, <1>6, <1>7, <1>8, <1>9, <1>10, <1>11, <1>12, <1>13,
           <1>14, <1>15 DEF Next, Cancels, StartUp

\* "ensure zero data loss for account creation" (AccountJournal::append): unless an append failed, an
\* account the gateway has served exists whenever it serves again, through any number of
\* crashes, inside writes as well, of the gateway and of the engines.
THEOREM AccountsKept == Spec => []AccountsPersist
<1>1. PersistInv => AccountsPersist
  BY DEF PersistInv, Persist, AccountsPersist
<1> QED BY <1>1, PersistInit, PersistStep, PTL DEF Spec

-----------------------------------------------------------------------------
(***************************************************************************)
(* Reservations across a restart (ReservationsAccounted and                *)
(* RestartCoversOpenOrders), with the types.  The argument: until the      *)
(* gateway serves, an engine it has connected to keeps on disk what it has *)
(* in memory, so what is reported is exactly the book, and when as many    *)
(* answers came as there are engines each engine has answered; afterwards  *)
(* no crash of an engine brings back more than was reported.  An order     *)
(* that could not be routed stays in the map without a reservation; its    *)
(* engine sends nothing to this process any more (UnroutedInv).            *)
(***************************************************************************)
AnswerEvents == [type : {"AllOrders"}, orders : SUBSET Reports]

AccountTypes ==
    /\ Known \subseteq Accounts /\ accounts \in [Known -> AccountState]
    /\ rebuilt \in [Accounts -> Int]

OrderTypes ==
    /\ pending_orders \subseteq Ids /\ cancelling \subseteq pending_orders
    /\ unrouted \subseteq pending_orders /\ before \subseteq Ids /\ sent \in 0 .. MaxOrders

InboxTypes ==
    /\ inbox \in Seq(Events \cup AnswerEvents)
    /\ all_orders \subseteq Reports /\ waits \in 0 .. NumEngines

SnapshotFile(f) ==
    /\ f.sequence \in 1 .. MaxTicks /\ f.loads \in BOOLEAN
    /\ DOMAIN f.data \subseteq Accounts /\ f.data \in [DOMAIN f.data -> SavedAccount]

DiskTypes ==
    /\ journal \in Seq(Frames)
    /\ ticks \in 0 .. MaxTicks /\ updates \in 0 .. ticks
    /\ \A f \in snapshots : SnapshotFile(f)

EngineTypes ==
    /\ engine \in [Engines -> {"down", "listening", "serving", "orphan"}]
    /\ queried \subseteq {e \in Engines : engine[e] = "serving"}
    /\ book \in [Ids -> Nat] /\ saved \in [Ids -> Nat]
    /\ \A i \in Ids : book[i] <= Orders[i].qty /\ saved[i] <= Orders[i].qty

TypeInv ==
    /\ stage \in {"down", "create", "connect", "query", "serve"}
    /\ AccountTypes /\ OrderTypes /\ InboxTypes /\ DiskTypes /\ EngineTypes

\* A process that does not serve yet has no client's order in its memory, and has received
\* nothing before its queries.
QuietInv ==
    /\ stage # "serve" =>
          /\ pending_orders = {} /\ before = {} /\ rebuilt = Nothing
          /\ \A a \in Known : accounts[a].tentative_reserved = 0
    /\ stage \in {"down", "create", "connect"} =>
          inbox = <<>> /\ queried = {} /\ waits = 0 /\ all_orders = {}

\* An order that could not be routed: its engine never serves this process again, so nothing
\* that is on its way, or will be, tells of it and releases what was released already.  A
\* cancel that names another symbol would be answered by another engine (OwnSymbol).
Tells(ev, i) == ev.type # "AllOrders" /\ ev.id = i
UnroutedInv ==
    /\ OwnSymbol
    /\ \A i \in unrouted :
          /\ stage = "serve" /\ engine[Orders[i].engine] # "serving"
          /\ \A k \in 1 .. Len(inbox) : ~Tells(inbox[k], i)

\* An engine that executes nothing has on disk what it has in memory.
Settled(e) == \A i \in Ids : Orders[i].engine = e => book[i] = saved[i]
SettledInv ==
    \A e \in Engines :
        \/ engine[e] \in {"down", "listening"}
        \/ engine[e] = "serving" /\ stage # "serve"
        => Settled(e)

\* What the answers so far say, received or waiting, and what the engines in A have open.
Reported == all_orders \cup UNION {inbox[k].orders : k \in 1 .. Len(inbox)}
Snapshot(i) == [id |-> i, lots |-> book[i]]
OpenIn(A) == {i \in Open : Orders[i].engine \in A}
AnsweredBy(A) ==
    /\ A \subseteq Engines \ queried
    /\ Cardinality(A) = waits + Len(inbox)
    /\ \A e \in A : engine[e] # "orphan"
    /\ Reported = {Snapshot(i) : i \in OpenIn(A)}

\* The answers are those of different engines, and still true.
QueryInv ==
    stage = "query" =>
        /\ waits < NumEngines
        /\ \A k \in 1 .. Len(inbox) : inbox[k] \in AnswerEvents
        /\ \E A \in SUBSET Engines : AnsweredBy(A)

\* The lots of an order that its engine has or can come back with.
Lasting(i) == IF book[i] < saved[i] THEN saved[i] ELSE book[i]
CoverInv ==
    stage = "serve" =>
        \A a \in Accounts : AmountOf(a, Part(before, [i \in Ids |-> Lasting(i)])) <= rebuilt[a]

RestartInv ==
    /\ TypeInv /\ QuietInv /\ UnroutedInv /\ SettledInv /\ QueryInv
    /\ ReservationsAccounted /\ CoverInv

-----------------------------------------------------------------------------
(* Amounts *)

\* The invariant has the types that the run checks.
LEMMA TypesAreOK == TypeInv => TypeOK
<1> SUFFICES ASSUME TypeInv PROVE TypeOK
  OBVIOUS
<1>1. Known \subseteq Accounts /\ \A a \in Known : accounts[a] \in AccountState
  BY DEF TypeInv, AccountTypes
<1>2. /\ pending_orders \subseteq Ids /\ cancelling \subseteq pending_orders
      /\ unrouted \subseteq pending_orders /\ sent \in 0 .. MaxOrders
  BY DEF TypeInv, OrderTypes
<1>3. /\ all_orders \subseteq Reports /\ waits \in 0 .. NumEngines
      /\ \A k \in 1 .. Len(inbox) : inbox[k] \in Events \cup AnswerEvents
  BY DEF TypeInv, InboxTypes
<1>4. \A ev \in AnswerEvents : ev.type = "AllOrders" /\ ev.orders \subseteq Reports
  BY DEF AnswerEvents
<1>5. updates \in 0 .. MaxTicks /\ \A k \in 1 .. Len(journal) : journal[k] \in Frames
  BY GatewayRecoveryAssumption DEF TypeInv, DiskTypes
<1>6. \A f \in snapshots :
          /\ f.sequence \in 1 .. MaxTicks /\ f.loads \in BOOLEAN
          /\ DOMAIN f.data \subseteq Accounts
          /\ \A a \in DOMAIN f.data : f.data[a] \in SavedAccount
  BY DEF TypeInv, DiskTypes, SnapshotFile
<1>7. /\ \A e \in Engines : engine[e] \in {"down", "listening", "serving", "orphan"}
      /\ queried \subseteq {e \in Engines : engine[e] = "serving"}
  BY DEF TypeInv, EngineTypes
<1>8. \A i \in Ids : Orders[i].qty \in Nat
  BY GatewayRecoveryAssumption
<1>9. \A i \in Ids : book[i] \in 0 .. Orders[i].qty /\ saved[i] \in 0 .. Orders[i].qty
  BY <1>8 DEF TypeInv, EngineTypes
<1>10. stage \in {"down", "create", "connect", "query", "serve"}
  BY DEF TypeInv
<1> QED BY <1>1, <1>2, <1>3, <1>4, <1>5, <1>6, <1>7, <1>9, <1>10 DEF TypeOK

\* The fields of an order.
LEMMA OrderFields ==
    ASSUME NEW i \in Ids
    PROVE  /\ Orders[i].account_id \in Accounts /\ Orders[i].engine \in Engines
           /\ Orders[i].price \in Nat /\ Orders[i].qty \in Nat \ {0}
BY GatewayRecoveryAssumption

\* More lots need at least as much money, and no lots need none.
LEMMA AmountFacts ==
    ASSUME NEW i \in Ids
    PROVE  /\ \A n \in Nat : Amount(i, n) \in Nat
           /\ Amount(i, 0) = 0
           /\ \A m, n \in Nat : m <= n => Amount(i, m) <= Amount(i, n)
<1> DEFINE p == Orders[i].price
<1>1. p \in Nat
  BY OrderFields
<1> HIDE DEF p
<1>2. \A n \in Nat : p * n \in Nat
  BY <1>1
<1>3. p * 0 = 0
  BY <1>1
<1>4. ASSUME NEW m \in Nat, NEW n \in Nat, m <= n PROVE p * m <= p * n
  <2>1. n - m \in Nat /\ n = m + (n - m)
    BY <1>4
  <2>2. p * n = p * m + p * (n - m)
    BY <2>1, <1>1
  <2>3. p * (n - m) \in Nat /\ p * m \in Nat /\ p * n \in Nat
    BY <2>1, <1>2
  <2> QED BY <2>2, <2>3
<1> QED BY <1>2, <1>3, <1>4 DEF Amount, p

\* The function that AmountOf sums up.
Weight(a, lots) ==
    [i \in Ids |-> IF Orders[i].account_id = a THEN Amount(i, lots[i]) ELSE 0]

\* It has natural numbers as values.
LEMMA WeightType ==
    ASSUME NEW a, NEW lots \in [Ids -> Nat]
    PROVE  /\ Weight(a, lots) \in [Ids -> Nat] /\ Weight(a, lots) \in [Ids -> Int]
           /\ AmountOf(a, lots) = SumFunction(Weight(a, lots))
<1>1. \A i \in Ids : Amount(i, lots[i]) \in Nat
  BY AmountFacts
<1> QED BY <1>1 DEF Weight, AmountOf

\* What is reserved for orders is never negative, and nothing for no lots.
LEMMA AmountOfType ==
    ASSUME NEW a, NEW lots \in [Ids -> Nat]
    PROVE  /\ AmountOf(a, lots) \in Nat
           /\ (\A i \in Ids : lots[i] = 0) => AmountOf(a, lots) = 0
<1> DEFINE w == Weight(a, lots)
<1>1. w \in [Ids -> Nat] /\ w \in [Ids -> Int] /\ AmountOf(a, lots) = SumFunction(w)
  BY WeightType
<1>2. IsFiniteSet(Ids)
  BY GatewayRecoveryAssumption
<1>3. ASSUME \A i \in Ids : lots[i] = 0 PROVE \A i \in Ids : w[i] = 0
  BY <1>3, AmountFacts DEF Weight
<1> HIDE DEF w
<1>4. SumFunction(w) \in Nat
  BY <1>1, <1>2, SumAtLeast
<1>5. ASSUME \A i \in Ids : w[i] = 0 PROVE SumFunction(w) = 0
  BY <1>1, <1>2, <1>5, SumZero
<1> QED BY <1>1, <1>3, <1>4, <1>5

\* Fewer lots, less money.
LEMMA AmountOfLess ==
    ASSUME NEW a, NEW fewer \in [Ids -> Nat], NEW lots \in [Ids -> Nat],
           \A i \in Ids : fewer[i] <= lots[i]
    PROVE  AmountOf(a, fewer) <= AmountOf(a, lots)
<1> DEFINE v == Weight(a, fewer)
           w == Weight(a, lots)
<1>1. v \in [Ids -> Int] /\ AmountOf(a, fewer) = SumFunction(v)
  BY WeightType
<1>2. w \in [Ids -> Int] /\ AmountOf(a, lots) = SumFunction(w)
  BY WeightType
<1>3. IsFiniteSet(Ids)
  BY GatewayRecoveryAssumption
<1>4. ASSUME NEW i \in Ids PROVE v[i] <= w[i]
  <2>1. fewer[i] \in Nat /\ lots[i] \in Nat /\ fewer[i] <= lots[i]
    OBVIOUS
  <2>2. Amount(i, fewer[i]) <= Amount(i, lots[i])
    BY <2>1, AmountFacts
  <2> QED BY <2>2 DEF Weight
<1> HIDE DEF v, w
<1> QED BY <1>1, <1>2, <1>3, <1>4, SumMonotonic

\* The lots of one order change.
LEMMA AmountOfChange ==
    ASSUME NEW a, NEW old \in [Ids -> Nat], NEW new \in [Ids -> Nat], NEW i \in Ids,
           \A j \in Ids \ {i} : new[j] = old[j]
    PROVE  AmountOf(a, new) = AmountOf(a, old)
              + IF Orders[i].account_id = a THEN Amount(i, new[i]) - Amount(i, old[i]) ELSE 0
<1> DEFINE v == Weight(a, new)
           w == Weight(a, old)
<1>1. v \in [Ids -> Int] /\ AmountOf(a, new) = SumFunction(v)
  BY WeightType
<1>2. w \in [Ids -> Int] /\ AmountOf(a, old) = SumFunction(w)
  BY WeightType
<1>3. IsFiniteSet(Ids)
  BY GatewayRecoveryAssumption
<1>4. \A j \in Ids \ {i} : v[j] = w[j]
  BY DEF Weight
<1>5. v[i] - w[i] = IF Orders[i].account_id = a THEN Amount(i, new[i]) - Amount(i, old[i]) ELSE 0
  BY DEF Weight
<1> HIDE DEF v, w
<1>6. SumFunction(v) = SumFunction(w) + (v[i] - w[i])
  BY <1>1, <1>2, <1>3, <1>4, SumUpdate
<1> QED BY <1>1, <1>2, <1>5, <1>6

\* A part of the lots, of some orders only.
LEMMA PartType ==
    ASSUME NEW ids, NEW lots \in [Ids -> Nat]
    PROVE  Part(ids, lots) \in [Ids -> Nat]
BY DEF Part

\* The tokens of no orders, of one more and of one less.
LEMMA TokensChange ==
    ASSUME NEW a
    PROVE  /\ TokensOf(a) \in Nat
           /\ Holding = {} => TokensOf(a) = 0
           /\ Holding' = Holding => TokensOf(a)' = TokensOf(a)
           /\ \A i \in Ids \ Holding :
                 Holding' = Holding \cup {i} =>
                    TokensOf(a)' = TokensOf(a) + IF Orders[i].account_id = a
                                                 THEN Amount(i, Orders[i].qty) ELSE 0
           /\ \A i \in Ids \cap Holding :
                 Holding' = Holding \ {i} =>
                    TokensOf(a)' = TokensOf(a) - IF Orders[i].account_id = a
                                                 THEN Amount(i, Orders[i].qty) ELSE 0
<1> DEFINE q == [i \in Ids |-> Orders[i].qty]
           old == Part(Holding, q)
           new == Part(Holding', q)
<1>1. q \in [Ids -> Nat]
  BY OrderFields
<1>2. /\ old \in [Ids -> Nat] /\ new \in [Ids -> Nat]
      /\ \A i \in Ids : /\ old[i] = IF i \in Holding THEN Orders[i].qty ELSE 0
                        /\ new[i] = IF i \in Holding' THEN Orders[i].qty ELSE 0
  BY <1>1 DEF Part
<1>3. TokensOf(a) = AmountOf(a, old) /\ TokensOf(a)' = AmountOf(a, new)
  BY DEF TokensOf, AmountOf, Part, Amount
<1>4. Holding' = Holding => new = old
  OBVIOUS
<1> HIDE DEF old, new
<1>5. TokensOf(a) \in Nat /\ (Holding = {} => TokensOf(a) = 0)
  BY <1>2, <1>3, AmountOfType
<1>6. ASSUME NEW i \in Ids, \A j \in Ids \ {i} : new[j] = old[j]
      PROVE  AmountOf(a, new) = AmountOf(a, old)
                + IF Orders[i].account_id = a THEN Amount(i, new[i]) - Amount(i, old[i]) ELSE 0
  BY <1>2, <1>6, AmountOfChange
<1>7. \A i \in Ids : Amount(i, 0) = 0 /\ Amount(i, Orders[i].qty) \in Nat
  BY AmountFacts, OrderFields
<1>8. ASSUME NEW i \in Ids \ Holding, Holding' = Holding \cup {i}
      PROVE  TokensOf(a)' = TokensOf(a) + IF Orders[i].account_id = a
                                          THEN Amount(i, Orders[i].qty) ELSE 0
  <2>1. new[i] = Orders[i].qty /\ old[i] = 0 /\ \A j \in Ids \ {i} : new[j] = old[j]
    BY <1>2, <1>8
  <2> QED BY <2>1, <1>3, <1>5, <1>6, <1>7
<1>9. ASSUME NEW i \in Ids \cap Holding, Holding' = Holding \ {i}
      PROVE  TokensOf(a)' = TokensOf(a) - IF Orders[i].account_id = a
                                          THEN Amount(i, Orders[i].qty) ELSE 0
  <2>1. new[i] = 0 /\ old[i] = Orders[i].qty /\ \A j \in Ids \ {i} : new[j] = old[j]
    BY <1>2, <1>9
  <2> QED BY <2>1, <1>3, <1>5, <1>6, <1>7
<1> QED BY <1>3, <1>4, <1>5, <1>8, <1>9

-----------------------------------------------------------------------------
(* The answers of the engines *)

\* Summed up by account, a report of every open order amounts to the book.
LEMMA ReportedAmount ==
    ASSUME EngineTypes, NEW a, NEW reports, reports = {Snapshot(i) : i \in Open}
    PROVE  ReservedBy(reports, a) = AmountOf(a, book)
<1> DEFINE S == {r \in reports : Orders[r.id].account_id = a}
           f == [r \in S |-> r.id]
           v == [r \in S |-> Amount(r.id, r.lots)]
           w == Weight(a, book)
<1>1. book \in [Ids -> Nat] /\ Open \subseteq Ids
  BY DEF EngineTypes, Open
<1>2. w \in [Ids -> Int] /\ AmountOf(a, book) = SumFunction(w)
  BY <1>1, WeightType
<1>3. IsFiniteSet(Ids)
  BY GatewayRecoveryAssumption
<1>4. \A r \in S : r.id \in Open /\ r.lots = book[r.id] /\ r = Snapshot(r.id)
                   /\ Orders[r.id].account_id = a
  BY DEF Snapshot
<1>5. IsFiniteSet(S)
  <2>1. IsFiniteSet(Open)
    BY <1>1, <1>3, FS_Subset
  <2>2. IsFiniteSet(reports)
    <3> DEFINE g == [i \in Open |-> Snapshot(i)]
    <3>1. g \in Injection(Open, reports)
      BY DEF Injection, Snapshot, IsInjective
    <3>2. g \in Surjection(Open, reports)
      BY DEF Surjection
    <3>3. ExistsBijection(Open, reports)
      BY <3>1, <3>2 DEF ExistsBijection, Bijection
    <3> QED BY <2>1, <3>3, FS_Bijection
  <2> QED BY <2>2, FS_Subset
<1>6. f \in [S -> Ids] /\ \A x, y \in S : f[x] = f[y] => x = y
  BY <1>1, <1>4
<1>7. \A r \in S : Amount(r.id, r.lots) \in Int /\ w[r.id] = Amount(r.id, r.lots)
  <2>1. \A i \in Ids : Amount(i, book[i]) \in Int
    BY <1>1, AmountFacts
  <2> QED BY <2>1, <1>1, <1>4 DEF Weight
<1>8. v \in [S -> Int] /\ \A x \in S : v[x] = w[f[x]]
  BY <1>7
<1>9. ASSUME NEW i \in Ids, \A x \in S : f[x] # i PROVE w[i] = 0
  <2>1. ASSUME i \in Open, Orders[i].account_id = a PROVE FALSE
    <3>1. Snapshot(i) \in S /\ f[Snapshot(i)] = i
      BY <2>1 DEF Snapshot
    <3> QED BY <3>1, <1>9
  <2>2. i \notin Open => book[i] = 0
    BY <1>1 DEF Open
  <2> QED BY <2>1, <2>2, AmountFacts DEF Weight
<1>10. ReservedBy(reports, a) = SumFunction(v)
  BY DEF ReservedBy
<1> HIDE DEF S, f, v, w
<1>11. Through(w, v, f, S, Ids)
  BY <1>2, <1>3, <1>5, <1>6, <1>8 DEF Through
<1>12. SumFunction(v) = SumFunction(w)
  BY <1>9, <1>11, SumImage
<1> QED BY <1>2, <1>10, <1>12

\* When as many answers came as there are engines, each engine has answered.
LEMMA AllAnswered ==
    ASSUME TypeInv, QueryInv, stage = "query", inbox # <<>>, waits + 1 >= NumEngines
    PROVE  /\ all_orders \cup (IF Head(inbox).type = "AllOrders" THEN Head(inbox).orders ELSE {})
                = {Snapshot(i) : i \in Open}
           /\ \A e \in Engines : engine[e] # "orphan"
<1>1. PICK A \in SUBSET Engines : AnsweredBy(A)
  BY DEF QueryInv
<1>2. /\ inbox \in Seq(Events \cup AnswerEvents) /\ waits \in Nat /\ NumEngines \in Nat
      /\ \A k \in 1 .. Len(inbox) : inbox[k] \in AnswerEvents
  BY GatewayRecoveryAssumption DEF TypeInv, InboxTypes, QueryInv
<1>3. Len(inbox) \in Nat \ {0} /\ Head(inbox) = inbox[1]
  BY <1>2
<1>4. IsFiniteSet(Engines) /\ Cardinality(Engines) = NumEngines
  BY <1>2, FS_Interval DEF Engines
<1>5. Cardinality(A) <= NumEngines /\ (Cardinality(A) = NumEngines => A = Engines)
  BY <1>4, FS_Subset
<1>6. Cardinality(A) = waits + Len(inbox)
  BY <1>1 DEF AnsweredBy
<1>7. Len(inbox) = 1 /\ A = Engines
  BY <1>2, <1>3, <1>5, <1>6
<1>8. Reported = all_orders \cup Head(inbox).orders
  <2>1. 1 .. Len(inbox) = {1}
    BY <1>7
  <2> QED BY <2>1, <1>3 DEF Reported
<1>9. Head(inbox).type = "AllOrders"
  BY <1>2, <1>3 DEF AnswerEvents
<1>10. OpenIn(A) = Open
  BY <1>7, OrderFields DEF OpenIn, Open
<1> QED BY <1>1, <1>7, <1>8, <1>9, <1>10 DEF AnsweredBy

-----------------------------------------------------------------------------
(* Types *)

\* A file that save writes, whole or in part.
LEMMA FileTypes ==
    ASSUME AccountTypes, NEW seq \in 1 .. MaxTicks, \A f \in snapshots : SnapshotFile(f)
    PROVE  /\ \A f \in Newest(WithSnapshot(seq, TRUE, CreateSnapshot)) : SnapshotFile(f)
           /\ \A files \in CutSave(seq) : \A f \in files : SnapshotFile(f)
<1>1. /\ CreateSnapshot \in [Known -> SavedAccount] /\ DOMAIN CreateSnapshot = Known
      /\ Known \subseteq Accounts
  BY DEF AccountTypes, CreateSnapshot, SavedAccount, AccountState
<1>2. Nobody \in [{} -> SavedAccount] /\ DOMAIN Nobody = {}
  BY DEF Nobody
<1>3. SnapshotFile([sequence |-> seq, loads |-> TRUE, data |-> CreateSnapshot])
  BY <1>1 DEF SnapshotFile
<1>4. SnapshotFile([sequence |-> seq, loads |-> FALSE, data |-> Nobody])
  BY <1>2 DEF SnapshotFile
<1>5. /\ \A f \in WithSnapshot(seq, TRUE, CreateSnapshot) : SnapshotFile(f)
      /\ \A f \in WithSnapshot(seq, FALSE, Nobody) : SnapshotFile(f)
  BY <1>3, <1>4 DEF WithSnapshot
<1>6. \A files : \A f \in Newest(files) : f \in files
  BY DEF Newest
<1>7. \A files \in CutSave(seq) :
         files \in {snapshots, WithSnapshot(seq, FALSE, Nobody), WithSnapshot(seq, TRUE, CreateSnapshot)}
  BY DEF CutSave
<1> QED BY <1>5, <1>6, <1>7

\* What a step may do to the files.
LEMMA DiskStep ==
    ASSUME TypeInv, [Next]_vars
    PROVE  DiskTypes'
<1> USE DEF disk, gateway, engines, history
<1>0. /\ DiskTypes /\ AccountTypes /\ journal \in Seq(Frames) /\ MaxTicks \in Nat
      /\ ticks \in 0 .. MaxTicks /\ updates \in 0 .. ticks /\ \A f \in snapshots : SnapshotFile(f)
  BY GatewayRecoveryAssumption DEF TypeInv, DiskTypes
<1>1. CASE UNCHANGED <<journal, snapshots, ticks, updates>>
  BY <1>0, <1>1 DEF DiskTypes
<1>2. ASSUME NEW a \in Accounts, CreateAccount(a) PROVE DiskTypes'
  <2>1. UNCHANGED <<snapshots, ticks, updates>>
    BY <1>2 DEF CreateAccount
  <2>2. journal' = journal \/ \E c \in Cuts \cup {"no"} : journal' = Appended(a, c)
    BY <1>2 DEF CreateAccount, CutAppend
  <2>3. journal' \in Seq(Frames)
    BY <2>2, <1>0, AppendReplayed
  <2> QED BY <2>1, <2>3, <1>0 DEF DiskTypes
<1>3. CASE Tick
  <2>1. /\ ticks' = ticks + 1 /\ ticks < MaxTicks /\ journal' = journal
        /\ updates' \in {0, updates + 1}
    BY <1>3 DEF Tick
  <2>2. ticks' \in 0 .. MaxTicks /\ updates' \in 0 .. ticks' /\ updates + 1 \in 1 .. MaxTicks
    BY <2>1, <1>0
  <2>3. \/ snapshots' = snapshots
        \/ snapshots' = Newest(WithSnapshot(updates + 1, TRUE, CreateSnapshot))
        \/ snapshots' \in CutSave(updates + 1)
    BY <1>3 DEF Tick
  <2>4. \A f \in snapshots' : SnapshotFile(f)
    BY <2>2, <2>3, <1>0, FileTypes
  <2> QED BY <2>1, <2>2, <2>4, <1>0 DEF DiskTypes
<1>4. CASE GatewayCrash \/ CrashWhileWriting
  <2>1. updates' = 0 /\ ticks' = ticks
    BY <1>4 DEF GatewayCrash, CrashWhileWriting, Dies
  <2>2. \/ UNCHANGED <<journal, snapshots>>
        \/ snapshots' = snapshots /\ \E a \in Accounts : \E c \in Cuts \cup {"no"} : journal' = Appended(a, c)
        \/ journal' = journal /\ ticks < MaxTicks /\ snapshots' \in CutSave(updates + 1)
    BY <1>4 DEF GatewayCrash, CrashWhileWriting
  <2>3. journal' \in Seq(Frames)
    BY <2>2, <1>0, AppendReplayed
  <2>4. \A f \in snapshots' : SnapshotFile(f)
    <3>1. ASSUME ticks < MaxTicks PROVE updates + 1 \in 1 .. MaxTicks
      BY <3>1, <1>0
    <3> QED BY <3>1, <2>2, <1>0, FileTypes
  <2> QED BY <2>1, <2>3, <2>4, <1>0 DEF DiskTypes
<1>5. ASSUME NEW i \in Ids, PlaceOrder(i) \/ Cancels(i) \/ EngineFills(i)
      PROVE  UNCHANGED <<journal, snapshots, ticks, updates>>
  BY <1>5 DEF PlaceOrder, Cancels, CancelOrder, EngineFills
<1>6. ASSUME NEW e \in Engines, \/ EngineAnswers(e) \/ EngineSaves(e) \/ EngineExits(e)
                                \/ EngineCrashes(e) \/ EngineStarts(e)
      PROVE  UNCHANGED <<journal, snapshots, ticks, updates>>
  BY <1>6 DEF EngineAnswers, EngineSaves, EngineExits, EngineCrashes, EngineStarts
<1>7. ASSUME \/ LoadAccounts \/ Connect \/ ConnectFails \/ ReceiveAnswer \/ Timeout \/ HandleEvent
             \/ UNCHANGED vars
      PROVE  UNCHANGED <<journal, snapshots, ticks, updates>>
  BY <1>7 DEF LoadAccounts, Connect, ConnectFails, ReceiveAnswer, Timeout, HandleEvent, vars
<1> QED BY <1>1, <1>2, <1>3, <1>4, <1>5, <1>6, <1>7 DEF Next, Cancels, StartUp

\* What an account becomes.
LEMMA AccountTypesOK ==
    /\ \A p, n \in Int : NewAccount(p, n) \in AccountState
    /\ \A x \in AccountState : x.buying_power \in Int /\ x.position \in Int /\ x.tentative_reserved \in Int
    /\ BuyingPower \in Int /\ 0 \in Int
BY GatewayRecoveryAssumption DEF NewAccount, AccountState

\* reserve and release change one account.
LEMMA ReserveTypes ==
    ASSUME AccountTypes, NEW a, NEW amount \in Int
    PROVE  /\ Reserve(a, amount) \in [Known -> AccountState]
           /\ \A b \in Known : Reserve(a, amount)[b].tentative_reserved =
                 accounts[b].tentative_reserved + IF b = a THEN amount ELSE 0
<1>1. accounts \in [Known -> AccountState]
  BY DEF AccountTypes
<1>2. \A b \in Known : accounts[b].tentative_reserved \in Int
  BY <1>1 DEF AccountState
<1> DEFINE x(b) == [accounts[b] EXCEPT !.tentative_reserved = @ + amount]
<1>3. ASSUME NEW b \in Known
      PROVE  /\ x(b) \in AccountState
             /\ x(b).tentative_reserved = accounts[b].tentative_reserved + amount
  BY <1>1 DEF AccountState
<1>4. CASE a \in Known
  <2>1. Reserve(a, amount) = [b \in Known |-> IF b = a THEN x(b) ELSE accounts[b]]
    BY <1>1, <1>4 DEF Reserve
  <2> HIDE DEF x
  <2>2. Reserve(a, amount) \in [Known -> AccountState]
    BY <2>1, <1>1, <1>3
  <2>3. \A b \in Known : Reserve(a, amount)[b] = IF b = a THEN x(b) ELSE accounts[b]
    BY <2>1
  <2> QED BY <2>2, <2>3, <1>2, <1>3
<1>5. CASE a \notin Known
  <2>1. Reserve(a, amount) = accounts
    BY <1>1, <1>5 DEF Reserve
  <2> QED BY <2>1, <1>1, <1>2, <1>5
<1> QED BY <1>4, <1>5

\* The fields of what an engine sends.
LEMMA EventFields ==
    ASSUME NEW ev \in Events \cup AnswerEvents
    PROVE  /\ ev.type = "Fill" => ev.id \in Ids /\ ev.lots \in Nat
           /\ ev.type \in {"Ack", "Reject"} => ev.id \in Ids
           /\ ev.type = "AllOrders" => ev \in AnswerEvents /\ ev.orders \subseteq Reports
           /\ ev.type \in {"Fill", "Ack", "Reject", "AllOrders"}
BY DEF Events, AnswerEvents

\* An order leaves the map, and its token the account.
Released(i) ==
    /\ i \in Holding
    /\ accounts' \in [Known -> AccountState]
    /\ \A b \in Known : accounts'[b].tentative_reserved =
          accounts[b].tentative_reserved
             - IF b = Orders[i].account_id THEN Amount(i, Orders[i].qty) ELSE 0
    /\ Forget(i)

\* An event releases the token of one order in the map, or changes nothing.
LEMMA HandledEvent ==
    ASSUME TypeInv, UnroutedInv, HandleEvent
    PROVE  \/ \E i \in Ids : Released(i)
           \/ UNCHANGED <<accounts, pending_orders, cancelling>>
<1> DEFINE ev == Head(inbox)
           i == ev.id
           a == Orders[i].account_id
           token == Amount(i, Orders[i].qty)
           sign == IF Orders[i].side = "Buy" THEN 1 ELSE -1
           filled == [accounts EXCEPT
                        ![a] = [buying_power |-> @.buying_power - sign * Orders[i].price * ev.lots,
                                position |-> @.position + sign * ev.lots,
                                tentative_reserved |-> @.tentative_reserved - token]]
<1>1. AccountTypes /\ OrderTypes /\ InboxTypes
  BY DEF TypeInv
<1>2. /\ inbox # <<>>
      /\ \/ ev.type = "Fill" /\ i \in pending_orders /\ accounts' = filled /\ Forget(i)
         \/ /\ \/ ev.type = "Reject" /\ i \in pending_orders
               \/ ev.type = "Ack" /\ i \in cancelling
            /\ accounts' = Reserve(a, -token) /\ Forget(i)
         \/ UNCHANGED <<accounts, pending_orders, cancelling>>
  BY DEF HandleEvent
<1>3. ev \in Events \cup AnswerEvents /\ ev = inbox[1] /\ 1 \in 1 .. Len(inbox)
  BY <1>1, <1>2 DEF InboxTypes
<1>0. ASSUME ev.type # "AllOrders", i \in pending_orders PROVE i \in Holding
  BY <1>0, <1>3 DEF UnroutedInv, Tells, Holding
<1> HIDE DEF ev
<1>4. ASSUME i \in Ids PROVE token \in Nat /\ -token \in Int /\ Orders[i].price \in Nat
  <2>1. Orders[i].qty \in Nat /\ Orders[i].price \in Nat
    BY <1>4, OrderFields
  <2>2. token \in Nat
    BY <2>1, <1>4, AmountFacts
  <2> QED BY <2>1, <2>2
<1>5. CASE ev.type = "Fill" /\ i \in pending_orders /\ accounts' = filled /\ Forget(i)
  <2>1. i \in Ids /\ ev.lots \in Nat
    BY <1>3, <1>5, EventFields
  <2>2. token \in Nat /\ sign \in Int /\ sign * Orders[i].price * ev.lots \in Int /\ sign * ev.lots \in Int
    BY <2>1, <1>4
  <2> DEFINE paid == sign * Orders[i].price * ev.lots
             got == sign * ev.lots
             x(b) == [buying_power |-> accounts[b].buying_power - paid,
                      position |-> accounts[b].position + got,
                      tentative_reserved |-> accounts[b].tentative_reserved - token]
  <2>3. filled = [accounts EXCEPT ![a] = x(a)]
    OBVIOUS
  <2> HIDE DEF paid, got, token, filled
  <2>4. paid \in Int /\ got \in Int /\ token \in Int
    BY <2>2 DEF paid, got
  <2>5. accounts \in [Known -> AccountState]
    BY <1>1 DEF AccountTypes
  <2>6. \A b \in Known : accounts[b].buying_power \in Int /\ accounts[b].position \in Int
                         /\ accounts[b].tentative_reserved \in Int
    BY <2>5 DEF AccountState
  <2>7. \A b \in Known : /\ x(b) \in AccountState
                         /\ x(b).tentative_reserved = accounts[b].tentative_reserved - token
    BY <2>4, <2>6 DEF AccountState
  <2>8. filled = [b \in Known |-> IF b = a THEN x(b) ELSE accounts[b]]
    BY <2>3, <2>5
  <2> HIDE DEF x, a
  <2>9. filled \in [Known -> AccountState]
    BY <2>5, <2>7, <2>8
  <2>10. \A b \in Known : filled[b] = IF b = a THEN x(b) ELSE accounts[b]
    BY <2>8
  <2>11. \A b \in Known : filled[b].tentative_reserved =
                             accounts[b].tentative_reserved - IF b = a THEN token ELSE 0
    BY <2>4, <2>6, <2>7, <2>10
  <2>12. i \in Holding
    BY <1>0, <1>5
  <2>13. Released(i)
    BY <1>5, <2>9, <2>11, <2>12 DEF Released, token, a
  <2> QED BY <2>1, <2>13
<1>6. CASE /\ \/ ev.type = "Reject" /\ i \in pending_orders
              \/ ev.type = "Ack" /\ i \in cancelling
           /\ accounts' = Reserve(a, -token) /\ Forget(i)
  <2>1. i \in Ids /\ i \in Holding
    BY <1>0, <1>1, <1>3, <1>6, EventFields DEF OrderTypes
  <2>2. token \in Nat /\ -token \in Int
    BY <2>1, <1>4
  <2>3. \A b \in Known : accounts[b].tentative_reserved \in Int
    BY <1>1 DEF AccountTypes, AccountState
  <2> HIDE DEF token, a, i
  <2>4. /\ Reserve(a, -token) \in [Known -> AccountState]
        /\ \A b \in Known : Reserve(a, -token)[b].tentative_reserved =
              accounts[b].tentative_reserved + IF b = a THEN -token ELSE 0
    BY <1>1, <2>2, ReserveTypes
  <2>5. \A b \in Known : accounts'[b].tentative_reserved =
              accounts[b].tentative_reserved - IF b = a THEN token ELSE 0
    BY <2>2, <2>3, <2>4, <1>6
  <2>6. Released(i)
    BY <2>1, <2>4, <2>5, <1>6 DEF Released, token, a
  <2> QED BY <2>1, <2>6
<1> QED BY <1>2, <1>5, <1>6

\* A start brings back accounts without reservations.
LEMMA LoadedAccounts ==
    ASSUME TypeInv, LoadAccounts
    PROVE  /\ Known' \subseteq Accounts /\ accounts' \in [Known' -> AccountState]
           /\ \A a \in Known' : accounts'[a].tentative_reserved = 0
<1>1. Replayed \subseteq Accounts
  BY KeptAccounts DEF TypeInv, DiskTypes
<1>2. NewAccount(BuyingPower, 0) \in AccountState /\ NewAccount(BuyingPower, 0).tentative_reserved = 0
  BY AccountTypesOK DEF NewAccount
<1>3. ASSUME NEW restored, DOMAIN restored \subseteq Accounts, accounts' = ReplayJournal(restored),
             \A a \in DOMAIN restored : /\ restored[a] \in AccountState
                                        /\ restored[a].tentative_reserved = 0
      PROVE  /\ Known' \subseteq Accounts /\ accounts' \in [Known' -> AccountState]
             /\ \A a \in Known' : accounts'[a].tentative_reserved = 0
  <2>1. /\ Known' = Replayed \cup DOMAIN restored
        /\ accounts' = [a \in Known' |-> IF a \in Replayed THEN NewAccount(BuyingPower, 0) ELSE restored[a]]
    BY <1>3 DEF ReplayJournal, Known
  <2>2. \A a \in Known' : accounts'[a] = IF a \in Replayed THEN NewAccount(BuyingPower, 0) ELSE restored[a]
    BY <2>1
  <2> QED BY <2>1, <2>2, <1>1, <1>2, <1>3
<1>4. CASE accounts' = ReplayJournal(Nobody)
  <2>1. DOMAIN Nobody = {}
    BY DEF Nobody
  <2> QED BY <2>1, <1>3, <1>4
<1>5. ASSUME NEW f \in snapshots, accounts' = ReplayJournal(RestoreFromSnapshot(f.data))
      PROVE  /\ Known' \subseteq Accounts /\ accounts' \in [Known' -> AccountState]
             /\ \A a \in Known' : accounts'[a].tentative_reserved = 0
  <2>1. DOMAIN f.data \subseteq Accounts /\ \A a \in DOMAIN f.data : f.data[a] \in SavedAccount
    BY DEF TypeInv, DiskTypes, SnapshotFile
  <2>2. \A a \in DOMAIN f.data : f.data[a].buying_power \in Int /\ f.data[a].position \in Int
    BY <2>1 DEF SavedAccount
  <2>3. \A p, n \in Int : NewAccount(p, n) \in AccountState /\ NewAccount(p, n).tentative_reserved = 0
    BY AccountTypesOK DEF NewAccount
  <2> DEFINE restored == RestoreFromSnapshot(f.data)
  <2>4. /\ DOMAIN restored \subseteq Accounts
        /\ \A a \in DOMAIN restored : /\ restored[a] \in AccountState
                                      /\ restored[a].tentative_reserved = 0
    BY <2>1, <2>2, <2>3 DEF RestoreFromSnapshot
  <2> HIDE DEF restored
  <2> QED BY <2>4, <1>3, <1>5 DEF restored
<1> QED BY <1>4, <1>5 DEF LoadAccounts

\* A new account has nothing reserved.
LEMMA CreatedAccount ==
    ASSUME AccountTypes, NEW a \in Accounts, CreateAccount(a)
    PROVE  /\ Known' \subseteq Accounts /\ accounts' \in [Known' -> AccountState]
           /\ \A b \in Known' : accounts'[b].tentative_reserved = 0
                                \/ (b \in Known /\ accounts'[b] = accounts[b])
<1>1. /\ Known' = Known \cup {a}
      /\ accounts' = [x \in Known' |-> IF x = a THEN NewAccount(BuyingPower, 0) ELSE accounts[x]]
  BY DEF CreateAccount, Known
<1>2. NewAccount(BuyingPower, 0) \in AccountState /\ NewAccount(BuyingPower, 0).tentative_reserved = 0
  BY AccountTypesOK DEF NewAccount
<1>3. Known \subseteq Accounts /\ accounts \in [Known -> AccountState]
  BY DEF AccountTypes
<1>4. \A x \in Known' : accounts'[x] = IF x = a THEN NewAccount(BuyingPower, 0) ELSE accounts[x]
  BY <1>1
<1> QED BY <1>1, <1>2, <1>3, <1>4

\* The last answer: every account has what its open orders need.
LEMMA Rebuilt ==
    ASSUME TypeInv, QueryInv, ReceiveAnswer, ~(waits + 1 < NumEngines)
    PROVE  /\ StartServing /\ before' = Open
           /\ \A e \in Engines : engine[e] # "orphan"
           /\ Known' = Known /\ accounts' \in [Known -> AccountState]
           /\ \A a \in Known : accounts'[a].tentative_reserved = AmountOf(a, book)
           /\ rebuilt' = [a \in Accounts |-> AmountOf(a, book)]
           /\ \A a \in Accounts : AmountOf(a, book) \in Nat
<1> DEFINE reports == all_orders \cup IF Head(inbox).type = "AllOrders" THEN Head(inbox).orders ELSE {}
<1>1. stage = "query" /\ inbox # <<>> /\ waits \in Nat /\ NumEngines \in Nat
  BY GatewayRecoveryAssumption DEF ReceiveAnswer, TypeInv, InboxTypes
<1>2. reports = {Snapshot(i) : i \in Open} /\ \A e \in Engines : engine[e] # "orphan"
  BY <1>1, AllAnswered
<1>3. /\ StartServing /\ before' = Open /\ accounts' = Rebuild(reports)
      /\ rebuilt' = [a \in Accounts |-> ReservedBy(reports, a)]
  BY DEF ReceiveAnswer
<1> HIDE DEF reports
<1>4. \A a : ReservedBy(reports, a) = AmountOf(a, book)
  BY <1>2, ReportedAmount DEF TypeInv
<1>5. \A a : AmountOf(a, book) \in Nat
  BY AmountOfType DEF TypeInv, EngineTypes
<1>6. accounts \in [Known -> AccountState]
  BY DEF TypeInv, AccountTypes
<1> DEFINE x(a) == [accounts[a] EXCEPT !.tentative_reserved = AmountOf(a, book)]
<1>7. \A a \in Known : x(a) \in AccountState /\ x(a).tentative_reserved = AmountOf(a, book)
  BY <1>5, <1>6 DEF AccountState
<1>8. accounts' = [a \in Known |-> x(a)]
  BY <1>3, <1>4 DEF Rebuild
<1> HIDE DEF x
<1>9. accounts' \in [Known -> AccountState] /\ \A a \in Known : accounts'[a].tentative_reserved = AmountOf(a, book)
  BY <1>7, <1>8
<1>10. Known' = Known
  BY <1>8 DEF Known
<1>11. rebuilt' = [a \in Accounts |-> AmountOf(a, book)]
  BY <1>3, <1>4
<1> QED BY <1>2, <1>3, <1>5, <1>9, <1>10, <1>11

\* An order is reserved for if it passes the check, and not if it cannot be routed.
LEMMA PlacedOrder ==
    ASSUME TypeInv, NEW i \in Ids, PlaceOrder(i)
    PROVE  /\ Known' = Known /\ accounts' \in [Known -> AccountState] /\ i \notin Holding
           /\ \/ /\ Holding' = Holding \cup {i}
                 /\ \A b \in Known : accounts'[b].tentative_reserved = accounts[b].tentative_reserved
                       + IF b = Orders[i].account_id THEN Amount(i, Orders[i].qty) ELSE 0
              \/ Holding' = Holding /\ accounts' = accounts
<1>1. Orders[i].qty \in Nat
  BY OrderFields
<1>2. Amount(i, Orders[i].qty) \in Int
  BY <1>1, AmountFacts
<1>3. /\ AccountTypes /\ accounts \in [Known -> AccountState] /\ i \notin Holding
      /\ pending_orders' = pending_orders \cup {i}
      /\ \/ /\ accounts' = Reserve(Orders[i].account_id, Amount(i, Orders[i].qty))
            /\ unrouted' = unrouted \ {i}
         \/ accounts' = accounts /\ unrouted' = unrouted \cup {i}
  BY DEF TypeInv, AccountTypes, PlaceOrder, Fresh, Holding
<1>4. CASE accounts' = Reserve(Orders[i].account_id, Amount(i, Orders[i].qty)) /\ unrouted' = unrouted \ {i}
  <2>1. /\ accounts' \in [Known -> AccountState]
        /\ \A b \in Known : accounts'[b].tentative_reserved = accounts[b].tentative_reserved
                   + IF b = Orders[i].account_id THEN Amount(i, Orders[i].qty) ELSE 0
    BY <1>2, <1>3, <1>4, ReserveTypes
  <2>2. Holding' = Holding \cup {i}
    BY <1>3, <1>4 DEF Holding
  <2> QED BY <2>1, <2>2, <1>3 DEF Known
<1>5. CASE accounts' = accounts /\ unrouted' = unrouted \cup {i}
  <2>1. Holding' = Holding
    BY <1>3, <1>5 DEF Holding
  <2> QED BY <2>1, <1>3, <1>5 DEF Known
<1> QED BY <1>3, <1>4, <1>5

\* What a step may do to the accounts.
LEMMA AccountStep ==
    ASSUME TypeInv, UnroutedInv, QueryInv, [Next]_vars
    PROVE  AccountTypes'
<1> USE DEF disk, gateway, engines, history
<1>0. /\ AccountTypes /\ Known \subseteq Accounts /\ rebuilt \in [Accounts -> Int]
      /\ accounts \in [Known -> AccountState]
  BY DEF TypeInv, AccountTypes
<1>1. CASE UNCHANGED <<accounts, rebuilt>>
  BY <1>0, <1>1 DEF AccountTypes, Known
<1>2. CASE LoadAccounts
  BY <1>0, <1>2, LoadedAccounts DEF AccountTypes, LoadAccounts
<1>3. ASSUME NEW a \in Accounts, CreateAccount(a) PROVE AccountTypes'
  BY <1>0, <1>3, CreatedAccount DEF AccountTypes, CreateAccount
<1>4. ASSUME accounts' = Nobody, rebuilt' = rebuilt \/ rebuilt' = Nothing PROVE AccountTypes'
  <2>1. Known' = {} /\ accounts' \in [{} -> AccountState]
    BY <1>4 DEF Nobody, Known
  <2>2. rebuilt' \in [Accounts -> Int]
    BY <1>0, <1>4 DEF Nothing
  <2> QED BY <2>1, <2>2 DEF AccountTypes
<1>5. CASE ConnectFails \/ GatewayCrash \/ CrashWhileWriting
  BY <1>4, <1>5 DEF ConnectFails, GatewayCrash, CrashWhileWriting, Dies
<1>6. CASE ReceiveAnswer
  <2>1. CASE waits + 1 < NumEngines
    BY <1>1, <1>6, <2>1 DEF ReceiveAnswer
  <2>2. CASE ~(waits + 1 < NumEngines)
    <3>1. /\ Known' = Known /\ accounts' \in [Known -> AccountState]
          /\ rebuilt' = [a \in Accounts |-> AmountOf(a, book)]
          /\ \A a \in Accounts : AmountOf(a, book) \in Nat
      BY <1>6, <2>2, Rebuilt
    <3>2. rebuilt' \in [Accounts -> Int]
      BY <3>1
    <3> QED BY <3>1, <3>2, <1>0 DEF AccountTypes
  <2> QED BY <2>1, <2>2
<1>7. ASSUME NEW i \in Ids, PlaceOrder(i) PROVE AccountTypes'
  <2>1. rebuilt' = rebuilt
    BY <1>7 DEF PlaceOrder
  <2>2. Known' = Known /\ accounts' \in [Known -> AccountState]
    BY <1>7, PlacedOrder
  <2> QED BY <2>1, <2>2, <1>0 DEF AccountTypes
<1>8. CASE HandleEvent
  <2>1. rebuilt' = rebuilt
    BY <1>8 DEF HandleEvent
  <2>2. accounts' \in [Known -> AccountState]
    BY <1>0, <1>8, HandledEvent DEF Released
  <2>3. Known' = Known
    BY <2>2 DEF Known
  <2> QED BY <2>1, <2>2, <2>3, <1>0 DEF AccountTypes
<1>9. ASSUME NEW i \in Ids, Cancels(i) \/ EngineFills(i) PROVE UNCHANGED <<accounts, rebuilt>>
  BY <1>9 DEF Cancels, CancelOrder, EngineFills
<1>10. ASSUME NEW e \in Engines, \/ EngineAnswers(e) \/ EngineSaves(e) \/ EngineExits(e)
                                 \/ EngineCrashes(e) \/ EngineStarts(e)
       PROVE  UNCHANGED <<accounts, rebuilt>>
  BY <1>10 DEF EngineAnswers, EngineSaves, EngineExits, EngineCrashes, EngineStarts
<1>11. ASSUME Connect \/ Timeout \/ Tick \/ UNCHANGED vars PROVE UNCHANGED <<accounts, rebuilt>>
  BY <1>11 DEF Connect, Timeout, Tick, vars
<1> QED BY <1>1, <1>2, <1>3, <1>5, <1>6, <1>7, <1>8, <1>9, <1>10, <1>11 DEF Next, Cancels, StartUp

\* What a step may do to the orders in the gateway's maps.
LEMMA OrderStep ==
    ASSUME TypeInv, UnroutedInv, [Next]_vars
    PROVE  OrderTypes'
<1> USE DEF disk, gateway, engines, history
<1>0. /\ pending_orders \subseteq Ids /\ cancelling \subseteq pending_orders
      /\ unrouted \subseteq pending_orders /\ before \subseteq Ids
      /\ sent \in 0 .. MaxOrders /\ MaxOrders \in Nat
  BY GatewayRecoveryAssumption DEF TypeInv, OrderTypes
<1>1. CASE UNCHANGED <<pending_orders, cancelling, unrouted, before, sent>>
  BY <1>0, <1>1 DEF OrderTypes
<1>2. ASSUME NEW i \in Ids, PlaceOrder(i) PROVE OrderTypes'
  <2>1. /\ pending_orders' = pending_orders \cup {i} /\ cancelling' = cancelling \ {i}
        /\ unrouted' \in {unrouted \ {i}, unrouted \cup {i}} /\ before' = before \ {i}
        /\ sent < MaxOrders /\ sent' = sent + 1
    BY <1>2 DEF PlaceOrder
  <2>2. sent' \in 0 .. MaxOrders
    BY <2>1, <1>0
  <2> QED BY <2>1, <2>2, <1>0 DEF OrderTypes
<1>3. ASSUME NEW i \in Ids, Cancels(i) PROVE OrderTypes'
  <2>1. /\ UNCHANGED <<pending_orders, unrouted, before, sent>>
        /\ cancelling' \in {cancelling \cup ({i} \cap pending_orders), cancelling \ {i}}
    BY <1>3 DEF Cancels, CancelOrder
  <2> QED BY <2>1, <1>0 DEF OrderTypes
<1>4. CASE HandleEvent
  <2>1. UNCHANGED <<unrouted, before, sent>>
    BY <1>4 DEF HandleEvent
  <2>2. \/ \E i \in Ids : /\ pending_orders' = pending_orders \ {i} /\ cancelling' = cancelling \ {i}
                           /\ i \notin unrouted
        \/ UNCHANGED <<pending_orders, cancelling>>
    BY <1>4, HandledEvent DEF Released, Forget, Holding
  <2> QED BY <2>1, <2>2, <1>0 DEF OrderTypes
<1>5. CASE GatewayCrash \/ CrashWhileWriting
  BY <1>0, <1>5 DEF OrderTypes, GatewayCrash, CrashWhileWriting, Dies
<1>6. CASE ReceiveAnswer
  <2>1. UNCHANGED <<pending_orders, cancelling, unrouted, sent>> /\ before' \in {before, Open}
    BY <1>6 DEF ReceiveAnswer
  <2>2. Open \subseteq Ids
    BY DEF Open
  <2> QED BY <2>1, <2>2, <1>0 DEF OrderTypes
<1>7. ASSUME NEW i \in Ids, EngineFills(i) PROVE UNCHANGED <<pending_orders, cancelling, unrouted, before, sent>>
  BY <1>7 DEF EngineFills
<1>8. ASSUME NEW e \in Engines, \/ EngineAnswers(e) \/ EngineSaves(e) \/ EngineExits(e)
                                \/ EngineCrashes(e) \/ EngineStarts(e)
      PROVE  UNCHANGED <<pending_orders, cancelling, unrouted, before, sent>>
  BY <1>8 DEF EngineAnswers, EngineSaves, EngineExits, EngineCrashes, EngineStarts
<1>9. ASSUME \/ LoadAccounts \/ (\E a \in Accounts : CreateAccount(a))
             \/ Connect \/ ConnectFails \/ Timeout \/ Tick \/ UNCHANGED vars
      PROVE  UNCHANGED <<pending_orders, cancelling, unrouted, before, sent>>
  BY <1>9 DEF LoadAccounts, CreateAccount, Connect, ConnectFails, Timeout, Tick, vars
<1> QED BY <1>1, <1>2, <1>3, <1>4, <1>5, <1>6, <1>7, <1>8, <1>9 DEF Next, Cancels, StartUp

\* What comes into the event channel, and what is left of it.
LEMMA InboxFacts ==
    ASSUME InboxTypes
    PROVE  /\ \A ev \in Events \cup AnswerEvents : Emit(ev) => inbox' \in Seq(Events \cup AnswerEvents)
           /\ inbox # <<>> => /\ Tail(inbox) \in Seq(Events \cup AnswerEvents)
                              /\ Head(inbox) \in Events \cup AnswerEvents
<1>1. inbox \in Seq(Events \cup AnswerEvents)
  BY DEF InboxTypes
<1>2. ASSUME NEW ev \in Events \cup AnswerEvents, Emit(ev)
      PROVE  inbox' \in Seq(Events \cup AnswerEvents)
  BY <1>1, <1>2 DEF Emit
<1> QED BY <1>1, <1>2

\* An engine reports orders and what is left of them.
LEMMA SnapshotTypes ==
    ASSUME TypeInv, NEW e
    PROVE  OrderSnapshots(e) \subseteq Reports
BY DEF TypeInv, EngineTypes, OrderSnapshots, Open, Reports

\* What a step may do to the event channel and to what reconciliation has.
LEMMA InboxStep ==
    ASSUME TypeInv, [Next]_vars
    PROVE  InboxTypes'
<1> USE DEF disk, gateway, engines, history
<1> DEFINE Sent == Events \cup AnswerEvents
<1>0. /\ InboxTypes /\ inbox \in Seq(Sent) /\ all_orders \subseteq Reports /\ waits \in 0 .. NumEngines
      /\ NumEngines \in Nat
  BY GatewayRecoveryAssumption DEF TypeInv, InboxTypes
<1>1. CASE UNCHANGED <<inbox, all_orders, waits>>
  BY <1>0, <1>1 DEF InboxTypes
<1>2. ASSUME NEW ev \in Sent, Emit(ev), UNCHANGED <<all_orders, waits>> PROVE InboxTypes'
  BY <1>0, <1>2, InboxFacts DEF InboxTypes
<1>3. ASSUME NEW i \in Ids PROVE Event("Ack", i) \in Sent /\ Event("Reject", i) \in Sent
  BY DEF Event, Events
<1>4. ASSUME NEW i \in Ids, PlaceOrder(i) \/ Cancels(i) PROVE InboxTypes'
  <2>1. /\ UNCHANGED <<all_orders, waits>>
        /\ Emit(Event("Ack", i)) \/ Emit(Event("Reject", i)) \/ inbox' = inbox
    BY <1>4 DEF PlaceOrder, Cancels, CancelOrder
  <2> QED BY <2>1, <1>1, <1>2, <1>3
<1>5. ASSUME NEW i \in Ids, EngineFills(i) PROVE InboxTypes'
  <2>1. book[i] \in Nat
    BY DEF TypeInv, EngineTypes
  <2>2. \A n \in 1 .. book[i] : [type |-> "Fill", id |-> i, lots |-> n] \in Sent
    BY <2>1 DEF Events
  <2>3. /\ UNCHANGED <<all_orders, waits>>
        /\ \/ \E n \in 1 .. book[i] : Emit([type |-> "Fill", id |-> i, lots |-> n])
           \/ inbox' = inbox
    BY <1>5 DEF EngineFills
  <2> QED BY <2>2, <2>3, <1>1, <1>2
<1>6. ASSUME NEW e \in Engines, EngineAnswers(e) PROVE InboxTypes'
  <2>1. [type |-> "AllOrders", orders |-> OrderSnapshots(e)] \in Sent
    BY SnapshotTypes DEF AnswerEvents
  <2>2. UNCHANGED <<all_orders, waits>> /\ Emit([type |-> "AllOrders", orders |-> OrderSnapshots(e)])
    BY <1>6 DEF EngineAnswers
  <2> QED BY <2>1, <2>2, <1>2
<1>7. CASE HandleEvent
  <2>1. inbox # <<>> /\ inbox' = Tail(inbox) /\ UNCHANGED <<all_orders, waits>>
    BY <1>7 DEF HandleEvent
  <2> QED BY <2>1, <1>0, InboxFacts DEF InboxTypes
<1>8. CASE ReceiveAnswer
  <2>1. /\ inbox # <<>> /\ inbox' = Tail(inbox)
        /\ \/ /\ waits + 1 < NumEngines /\ waits' = waits + 1
              /\ all_orders' = all_orders \cup IF Head(inbox).type = "AllOrders" THEN Head(inbox).orders ELSE {}
           \/ waits' = 0 /\ all_orders' = {}
    BY <1>8 DEF ReceiveAnswer, StartServing
  <2>2. inbox' \in Seq(Sent) /\ Head(inbox) \in Sent
    BY <2>1, <1>0, InboxFacts
  <2>3. Head(inbox).type = "AllOrders" => Head(inbox).orders \subseteq Reports
    BY <2>2, EventFields
  <2>4. all_orders' \subseteq Reports /\ waits' \in 0 .. NumEngines
    BY <2>1, <2>3, <1>0
  <2> QED BY <2>2, <2>4 DEF InboxTypes
<1>9. CASE Timeout
  BY <1>0, <1>9 DEF Timeout, StartServing, InboxTypes
<1>10. CASE GatewayCrash \/ CrashWhileWriting
  <2>1. inbox' = <<>> /\ all_orders' = {} /\ waits' = 0
    BY <1>10 DEF GatewayCrash, CrashWhileWriting, Dies
  <2> QED BY <2>1, <1>0 DEF InboxTypes
<1>11. ASSUME NEW e \in Engines, EngineSaves(e) \/ EngineExits(e) \/ EngineCrashes(e) \/ EngineStarts(e)
       PROVE  UNCHANGED <<inbox, all_orders, waits>>
  BY <1>11 DEF EngineSaves, EngineExits, EngineCrashes, EngineStarts
<1>12. ASSUME \/ LoadAccounts \/ (\E a \in Accounts : CreateAccount(a))
              \/ Connect \/ ConnectFails \/ Tick \/ UNCHANGED vars
       PROVE  UNCHANGED <<inbox, all_orders, waits>>
  BY <1>12 DEF LoadAccounts, CreateAccount, Connect, ConnectFails, Tick, vars
<1> QED BY <1>1, <1>4, <1>5, <1>6, <1>7, <1>8, <1>9, <1>10, <1>11, <1>12 DEF Next, Cancels, StartUp

\* What a step may do to an order in its engine: a new order comes in; otherwise the book has
\* no more than it had or goes back to the disk, which may catch up with the book.
Moved(i) ==
    \/ i \notin before' /\ book'[i] = Orders[i].qty /\ saved'[i] = saved[i]
    \/ /\ book'[i] \in Nat /\ (book'[i] <= book[i] \/ book'[i] = saved[i])
       /\ saved'[i] \in {saved[i], book[i]}

\* Every step does one of these to each order.
LEMMA BookStep ==
    ASSUME TypeInv, [Next]_vars
    PROVE  /\ book' \in [Ids -> Nat] /\ saved' \in [Ids -> Nat]
           /\ \A i \in Ids : Moved(i)
<1> USE DEF disk, gateway, engines, history
<1>0. book \in [Ids -> Nat] /\ saved \in [Ids -> Nat] /\ \A i \in Ids : Orders[i].qty \in Nat
  BY OrderFields DEF TypeInv, EngineTypes
<1>1. CASE UNCHANGED <<book, saved>>
  BY <1>0, <1>1 DEF Moved
<1>2. ASSUME NEW i \in Ids, PlaceOrder(i)
      PROVE  /\ book' \in [Ids -> Nat] /\ saved' \in [Ids -> Nat]
             /\ \A j \in Ids : Moved(j)
  <2>1. /\ before' = before \ {i} /\ saved' = saved
        /\ book' = [book EXCEPT ![i] = Orders[i].qty] \/ book' = book
    BY <1>2 DEF PlaceOrder
  <2> QED BY <2>1, <1>0 DEF Moved
<1>3. ASSUME NEW i \in Ids, Cancels(i)
      PROVE  /\ book' \in [Ids -> Nat] /\ saved' \in [Ids -> Nat]
             /\ \A j \in Ids : Moved(j)
  <2>1. saved' = saved /\ (book' = [book EXCEPT ![i] = 0] \/ book' = book)
    BY <1>3 DEF Cancels, CancelOrder
  <2> QED BY <2>1, <1>0 DEF Moved
<1>4. ASSUME NEW i \in Ids, EngineFills(i)
      PROVE  /\ book' \in [Ids -> Nat] /\ saved' \in [Ids -> Nat]
             /\ \A j \in Ids : Moved(j)
  <2>1. PICK n \in 1 .. book[i] : book' = [book EXCEPT ![i] = @ - n]
    BY <1>4 DEF EngineFills
  <2>2. saved' = saved
    BY <1>4 DEF EngineFills
  <2>3. book[i] - n \in Nat /\ book[i] - n <= book[i]
    BY <1>0
  <2> QED BY <2>1, <2>2, <2>3, <1>0 DEF Moved
<1>5. ASSUME NEW e,
             \/ saved' = OnEngine(e, book, saved) /\ book' = book
             \/ book' = OnEngine(e, saved, book) /\ saved' = saved
      PROVE  /\ book' \in [Ids -> Nat] /\ saved' \in [Ids -> Nat]
             /\ \A j \in Ids : Moved(j)
  BY <1>0, <1>5 DEF OnEngine, Moved
<1>6. ASSUME NEW e \in Engines, EngineSaves(e) \/ EngineExits(e) \/ EngineCrashes(e)
      PROVE  \/ saved' = OnEngine(e, book, saved) /\ book' = book
             \/ book' = OnEngine(e, saved, book) /\ saved' = saved
  BY <1>6 DEF EngineSaves, EngineExits, EngineCrashes
<1>7. ASSUME NEW e \in Engines, EngineAnswers(e) \/ EngineStarts(e) PROVE UNCHANGED <<book, saved>>
  BY <1>7 DEF EngineAnswers, EngineStarts
<1>8. ASSUME \/ LoadAccounts \/ (\E a \in Accounts : CreateAccount(a))
             \/ Connect \/ ConnectFails \/ ReceiveAnswer \/ Timeout \/ HandleEvent \/ Tick
             \/ GatewayCrash \/ CrashWhileWriting \/ UNCHANGED vars
      PROVE  UNCHANGED <<book, saved>>
  BY <1>8 DEF LoadAccounts, CreateAccount, Connect, ConnectFails, ReceiveAnswer, Timeout, HandleEvent,
              Tick, GatewayCrash, CrashWhileWriting, Dies, vars
<1> QED BY <1>1, <1>2, <1>3, <1>4, <1>5, <1>6, <1>7, <1>8 DEF Next, Cancels, StartUp

\* What a step may do to the engines' processes.
LEMMA ProcessStep ==
    ASSUME TypeInv, [Next]_vars
    PROVE  /\ engine' \in [Engines -> {"down", "listening", "serving", "orphan"}]
           /\ queried' \subseteq {e \in Engines : engine'[e] = "serving"}
<1> USE DEF disk, gateway, engines, history
<1> DEFINE States == {"down", "listening", "serving", "orphan"}
           Goal == /\ engine' \in [Engines -> States]
                   /\ queried' \subseteq {e \in Engines : engine'[e] = "serving"}
<1>0. engine \in [Engines -> States] /\ queried \subseteq {e \in Engines : engine[e] = "serving"}
  BY DEF TypeInv, EngineTypes
<1>1. CASE engine' = engine /\ queried' \subseteq queried
  BY <1>0, <1>1
<1>2. CASE Connect
  BY <1>0, <1>2 DEF Connect
<1>3. CASE ConnectFails
  <2>1. /\ queried' = queried
        /\ engine' \in [Engines -> States]
        /\ \A e \in Engines : engine[e] = "serving" => engine'[e] = "serving"
    BY <1>0, <1>3 DEF ConnectFails
  <2> QED BY <2>1, <1>0
<1>4. CASE GatewayCrash \/ CrashWhileWriting
  BY <1>0, <1>4 DEF GatewayCrash, CrashWhileWriting, Dies
<1>5. ASSUME NEW e \in Engines, LosesGateway(e) PROVE Goal
  BY <1>0, <1>5 DEF LosesGateway
<1>6. ASSUME NEW e \in Engines, EngineExits(e) \/ EngineCrashes(e) PROVE LosesGateway(e)
  BY <1>6 DEF EngineExits, EngineCrashes
<1>7. ASSUME NEW e \in Engines, EngineStarts(e) PROVE Goal
  BY <1>0, <1>7 DEF EngineStarts
<1>8. ASSUME NEW e \in Engines, EngineAnswers(e) \/ EngineSaves(e)
      PROVE  engine' = engine /\ queried' \subseteq queried
  BY <1>8 DEF EngineAnswers, EngineSaves
<1>9. ASSUME NEW i \in Ids, PlaceOrder(i) \/ Cancels(i) \/ EngineFills(i)
      PROVE  engine' = engine /\ queried' \subseteq queried
  BY <1>9 DEF PlaceOrder, Cancels, CancelOrder, EngineFills
<1>10. ASSUME \/ LoadAccounts \/ (\E a \in Accounts : CreateAccount(a))
              \/ ReceiveAnswer \/ Timeout \/ HandleEvent \/ Tick \/ UNCHANGED vars
       PROVE  engine' = engine /\ queried' \subseteq queried
  BY <1>10 DEF LoadAccounts, CreateAccount, ReceiveAnswer, Timeout, HandleEvent, Tick, vars
<1> QED BY <1>1, <1>2, <1>3, <1>4, <1>5, <1>6, <1>7, <1>8, <1>9, <1>10 DEF Next, Cancels, StartUp

\* Types are kept.
LEMMA TypeStep ==
    ASSUME TypeInv, UnroutedInv, QueryInv, [Next]_vars
    PROVE  TypeInv'
<1>1. stage' \in {"down", "create", "connect", "query", "serve"}
  <2> USE DEF disk, gateway, engines, history
  <2>1. stage \in {"down", "create", "connect", "query", "serve"}
    BY DEF TypeInv
  <2>2. ASSUME NEW i \in Ids, PlaceOrder(i) \/ Cancels(i) \/ EngineFills(i) PROVE stage' = stage
    BY <2>2 DEF PlaceOrder, Cancels, CancelOrder, EngineFills
  <2>3. ASSUME NEW e \in Engines, \/ EngineAnswers(e) \/ EngineSaves(e) \/ EngineExits(e)
                                  \/ EngineCrashes(e) \/ EngineStarts(e)
        PROVE  stage' = stage
    BY <2>3 DEF EngineAnswers, EngineSaves, EngineExits, EngineCrashes, EngineStarts
  <2>4. ASSUME \/ LoadAccounts \/ (\E a \in Accounts : CreateAccount(a))
               \/ Connect \/ ConnectFails \/ ReceiveAnswer \/ Timeout \/ HandleEvent \/ Tick
               \/ GatewayCrash \/ CrashWhileWriting \/ UNCHANGED vars
        PROVE  stage' \in {stage, "down", "create", "connect", "query", "serve"}
    BY <2>4 DEF LoadAccounts, CreateAccount, Connect, ConnectFails, ReceiveAnswer, StartServing, Timeout,
                HandleEvent, Tick, GatewayCrash, CrashWhileWriting, Dies, vars
  <2> QED BY <2>1, <2>2, <2>3, <2>4 DEF Next, Cancels, StartUp
<1>2. EngineTypes'
  <2>1. /\ book' \in [Ids -> Nat] /\ saved' \in [Ids -> Nat]
        /\ \A i \in Ids : Moved(i)
    BY BookStep
  <2>2. \A i \in Ids : /\ book[i] \in Nat /\ saved[i] \in Nat /\ Orders[i].qty \in Nat
                       /\ book[i] <= Orders[i].qty /\ saved[i] <= Orders[i].qty
    BY OrderFields DEF TypeInv, EngineTypes
  <2>3. \A i \in Ids : book'[i] <= Orders[i].qty /\ saved'[i] <= Orders[i].qty
    BY <2>1, <2>2 DEF Moved
  <2>4. /\ engine' \in [Engines -> {"down", "listening", "serving", "orphan"}]
        /\ queried' \subseteq {e \in Engines : engine'[e] = "serving"}
    BY ProcessStep
  <2> QED BY <2>1, <2>3, <2>4 DEF EngineTypes
<1>3. AccountTypes' /\ OrderTypes' /\ InboxTypes' /\ DiskTypes'
  BY AccountStep, OrderStep, InboxStep, DiskStep
<1> QED BY <1>1, <1>2, <1>3 DEF TypeInv

-----------------------------------------------------------------------------
(* Before the gateway serves *)

\* A process that does not serve yet stays quiet.
LEMMA QuietStep ==
    ASSUME TypeInv, QuietInv, [Next]_vars
    PROVE  QuietInv'
<1> USE DEF disk, gateway, engines, history
<1> DEFINE early == {"down", "create", "connect"}
           Empty == inbox = <<>> /\ queried = {} /\ waits = 0 /\ all_orders = {}
           Idle == pending_orders = {} /\ before = {} /\ rebuilt = Nothing
           Free == \A a \in Known : accounts[a].tentative_reserved = 0
<1>0. (stage # "serve" => Idle /\ Free) /\ (stage \in early => Empty)
  BY DEF QuietInv
<1>1. ASSUME stage' = "serve" PROVE QuietInv'
  BY <1>1 DEF QuietInv
<1>2. CASE UNCHANGED <<stage, accounts, pending_orders, before, rebuilt, inbox, queried, waits, all_orders>>
  BY <1>2 DEF QuietInv, Known, Nothing
<1>3. CASE LoadAccounts
  <2>1. stage = "down" /\ UNCHANGED <<pending_orders, before, rebuilt, inbox, queried, waits, all_orders>>
    BY <1>3 DEF LoadAccounts
  <2>2. Free'
    BY <1>3, LoadedAccounts
  <2> QED BY <2>1, <2>2, <1>0 DEF QuietInv, Nothing
<1>4. ASSUME NEW a \in Accounts, CreateAccount(a) PROVE QuietInv'
  <2>1. stage = "create" /\ UNCHANGED <<pending_orders, before, rebuilt, inbox, queried, waits, all_orders>>
    BY <1>4 DEF CreateAccount, IsNext
  <2>2. Free'
    BY <2>1, <1>0, <1>4, CreatedAccount DEF TypeInv
  <2> QED BY <2>1, <2>2, <1>0 DEF QuietInv, Nothing
<1>5. CASE Connect
  <2>1. stage = "connect" /\ stage' = "query" /\ UNCHANGED <<accounts, pending_orders, before, rebuilt>>
    BY <1>5 DEF Connect
  <2> QED BY <2>1, <1>0 DEF QuietInv, Nothing, Known
<1>6. CASE ConnectFails
  <2>1. /\ stage = "connect" /\ accounts' = Nobody
        /\ UNCHANGED <<pending_orders, before, rebuilt, inbox, queried, waits, all_orders>>
    BY <1>6 DEF ConnectFails
  <2>2. Known' = {}
    BY <2>1 DEF Known, Nobody
  <2> QED BY <2>1, <2>2, <1>0 DEF QuietInv, Nothing
<1>7. CASE ReceiveAnswer
  <2>1. \/ stage' = "serve"
        \/ stage' = stage /\ stage = "query" /\ UNCHANGED <<accounts, pending_orders, before, rebuilt>>
    BY <1>7 DEF ReceiveAnswer, StartServing
  <2> QED BY <2>1, <1>0, <1>1 DEF QuietInv, Nothing, Known
<1>8. CASE Timeout
  BY <1>1, <1>8 DEF Timeout, StartServing
<1>9. ASSUME NEW i \in Ids, PlaceOrder(i) \/ Cancels(i) PROVE stage' = "serve"
  BY <1>9 DEF PlaceOrder, Cancels, CancelOrder
<1>10. ASSUME HandleEvent \/ Tick PROVE stage' = "serve"
  BY <1>10 DEF HandleEvent, Tick
<1>11. CASE GatewayCrash \/ CrashWhileWriting
  <2>1. Dies
    BY <1>11 DEF GatewayCrash, CrashWhileWriting
  <2>2. Known' = {}
    BY <2>1 DEF Dies, Known, Nobody
  <2> QED BY <2>1, <2>2 DEF Dies, QuietInv, Nothing
<1>12. ASSUME NEW e \in Engines, EngineAnswers(e) PROVE QuietInv'
  <2>1. e \in queried /\ UNCHANGED <<stage, accounts, pending_orders, before, rebuilt>>
    BY <1>12 DEF EngineAnswers
  <2> QED BY <2>1, <1>0 DEF QuietInv, Nothing, Known
<1>13. ASSUME NEW e \in Engines, EngineSaves(e) \/ EngineExits(e) \/ EngineCrashes(e) \/ EngineStarts(e)
       PROVE  QuietInv'
  <2>1. /\ UNCHANGED <<stage, accounts, pending_orders, before, rebuilt, inbox, waits, all_orders>>
        /\ queried' \subseteq queried
    BY <1>13 DEF EngineSaves, EngineExits, EngineCrashes, EngineStarts, LosesGateway
  <2> QED BY <2>1, <1>0 DEF QuietInv, Nothing, Known
<1>14. ASSUME NEW i \in Ids, EngineFills(i) PROVE QuietInv'
  <2>1. /\ UNCHANGED <<stage, accounts, pending_orders, before, rebuilt, queried, waits, all_orders>>
        /\ stage = "serve" \/ inbox' = inbox
    BY <1>14 DEF EngineFills
  <2> QED BY <2>1, <1>0 DEF QuietInv, Nothing, Known
<1>15. CASE UNCHANGED vars
  BY <1>2, <1>15 DEF vars
<1> QED BY <1>1, <1>3, <1>4, <1>5, <1>6, <1>7, <1>8, <1>9, <1>10, <1>11, <1>12, <1>13, <1>14, <1>15
        DEF Next, Cancels, StartUp

\* An engine that an order could not be routed to does not serve this process again, and tells
\* it nothing.
LEMMA UnroutedStep ==
    ASSUME TypeInv, UnroutedInv, [Next]_vars
    PROVE  UnroutedInv'
<1> USE DEF disk, gateway, engines, history
<1> DEFINE Safe(i) == stage' = "serve" /\ engine'[Orders[i].engine] # "serving"
           Silent(i) == \A k \in 1 .. Len(inbox') : ~Tells(inbox'[k], i)
<1>0. /\ inbox \in Seq(Events \cup AnswerEvents)
      /\ engine \in [Engines -> {"down", "listening", "serving", "orphan"}]
      /\ \A i \in Ids : Orders[i].engine \in Engines
      /\ unrouted \subseteq Ids
  BY OrderFields DEF TypeInv, InboxTypes, EngineTypes, OrderTypes
<1>1. /\ OwnSymbol
      /\ \A i \in unrouted : /\ stage = "serve" /\ engine[Orders[i].engine] # "serving"
                             /\ \A k \in 1 .. Len(inbox) : ~Tells(inbox[k], i)
  BY DEF UnroutedInv
<1>2. ASSUME \A i \in unrouted' : Safe(i) /\ Silent(i) PROVE UnroutedInv'
  BY <1>2 DEF UnroutedInv, Tells
<1>3. ASSUME NEW ev, Emit(ev), NEW i, \A k \in 1 .. Len(inbox) : ~Tells(inbox[k], i), ~Tells(ev, i)
      PROVE  Silent(i)
  <2>1. inbox' = Append(inbox, ev)
    BY <1>3 DEF Emit
  <2>2. /\ Len(inbox') = Len(inbox) + 1 /\ Len(inbox) \in Nat
        /\ \A k \in 1 .. Len(inbox) : inbox'[k] = inbox[k]
        /\ inbox'[Len(inbox) + 1] = ev
    BY <2>1, <1>0
  <2>3. \A k \in 1 .. Len(inbox') : k \in 1 .. Len(inbox) \/ k = Len(inbox) + 1
    BY <2>2
  <2> QED BY <2>2, <2>3, <1>3
<1>4. ASSUME inbox # <<>>, inbox' = Tail(inbox), NEW i, \A k \in 1 .. Len(inbox) : ~Tells(inbox[k], i)
      PROVE  Silent(i)
  <2>1. \A k \in 1 .. Len(inbox') : k + 1 \in 1 .. Len(inbox) /\ inbox'[k] = inbox[k + 1]
    BY <1>0, <1>4
  <2> QED BY <2>1, <1>4
<1> HIDE DEF Silent
<1>5. ASSUME inbox' = inbox, NEW i, \A k \in 1 .. Len(inbox) : ~Tells(inbox[k], i) PROVE Silent(i)
  BY <1>5 DEF Silent
<1>6. \A i, j : i # j => ~Tells(Event("Ack", i), j) /\ ~Tells(Event("Reject", i), j)
  BY DEF Tells, Event
<1>7. ASSUME NEW i \in Ids, PlaceOrder(i) PROVE UnroutedInv'
  <2>1. /\ stage = "serve" /\ stage' = stage /\ engine' = engine
        /\ \A k \in 1 .. Len(inbox) : ~Tells(inbox[k], i)
    BY <1>7 DEF PlaceOrder, Fresh, Tells
  <2>2. CASE unrouted' = unrouted \ {i}
    <3>1. Emit(Event("Ack", i)) \/ Emit(Event("Reject", i)) \/ inbox' = inbox
      BY <1>7 DEF PlaceOrder
    <3>2. ASSUME NEW j \in unrouted' PROVE Silent(j)
      BY <3>1, <2>2, <1>1, <1>3, <1>5, <1>6
    <3> QED BY <3>2, <2>1, <2>2, <1>1, <1>2
  <2>3. CASE unrouted' = unrouted \cup {i} /\ inbox' = inbox /\ engine[Orders[i].engine] # "serving"
    BY <2>1, <2>3, <1>1, <1>2, <1>5
  <2> QED BY <2>2, <2>3, <1>7 DEF PlaceOrder, RouteFails
<1>8. ASSUME NEW i \in Ids, Cancels(i) PROVE UnroutedInv'
  <2>1. /\ stage = "serve" /\ UNCHANGED <<stage, engine, unrouted>>
        /\ \/ engine[Orders[i].engine] = "serving" /\ (Emit(Event("Ack", i)) \/ Emit(Event("Reject", i)))
           \/ inbox' = inbox
    BY <1>1, <1>8 DEF Cancels, CancelOrder, Serving
  <2>2. ASSUME NEW j \in unrouted' PROVE Silent(j)
    BY <2>1, <1>1, <1>3, <1>5, <1>6
  <2> QED BY <2>1, <2>2, <1>1, <1>2
<1>9. ASSUME NEW i \in Ids, EngineFills(i) PROVE UnroutedInv'
  <2>1. PICK n \in 1 .. book[i] :
            \/ stage = "serve" /\ Serving(Orders[i].engine) /\ Emit([type |-> "Fill", id |-> i, lots |-> n])
            \/ engine[Orders[i].engine] = "orphan" /\ UNCHANGED inbox
    BY <1>9 DEF EngineFills
  <2>2. UNCHANGED <<stage, engine, unrouted>>
    BY <1>9 DEF EngineFills
  <2>3. \A j : j # i => ~Tells([type |-> "Fill", id |-> i, lots |-> n], j)
    BY DEF Tells
  <2>4. ASSUME NEW j \in unrouted' PROVE Silent(j)
    BY <2>1, <2>2, <2>3, <1>1, <1>3, <1>5 DEF Serving
  <2> QED BY <2>2, <2>4, <1>1, <1>2
<1>10. ASSUME NEW e \in Engines, EngineAnswers(e) PROVE UnroutedInv'
  <2>1. UNCHANGED <<stage, engine, unrouted>> /\ Emit([type |-> "AllOrders", orders |-> OrderSnapshots(e)])
    BY <1>10 DEF EngineAnswers
  <2>2. \A j : ~Tells([type |-> "AllOrders", orders |-> OrderSnapshots(e)], j)
    BY DEF Tells
  <2>3. ASSUME NEW j \in unrouted' PROVE Silent(j)
    BY <2>1, <2>2, <1>1, <1>3
  <2> QED BY <2>1, <2>3, <1>1, <1>2
<1>11. CASE HandleEvent
  <2>1. UNCHANGED <<stage, engine, unrouted>> /\ inbox # <<>> /\ inbox' = Tail(inbox)
    BY <1>11 DEF HandleEvent
  <2>2. ASSUME NEW j \in unrouted' PROVE Silent(j)
    BY <2>1, <1>1, <1>4
  <2> QED BY <2>1, <2>2, <1>1, <1>2
<1>12. ASSUME NEW e \in Engines, EngineSaves(e) \/ EngineExits(e) \/ EngineCrashes(e) \/ EngineStarts(e)
       PROVE  UnroutedInv'
  <2>1. /\ UNCHANGED <<stage, unrouted, inbox>>
        /\ \A d \in Engines : engine'[d] \in {engine[d], "down", "listening"}
    BY <1>0, <1>12 DEF EngineSaves, EngineExits, EngineCrashes, EngineStarts, LosesGateway
  <2>2. ASSUME NEW j \in unrouted' PROVE Safe(j)
    BY <2>1, <1>0, <1>1
  <2> QED BY <2>1, <2>2, <1>1, <1>2, <1>5
<1>13. CASE GatewayCrash \/ CrashWhileWriting
  <2>1. unrouted' = {}
    BY <1>13 DEF GatewayCrash, CrashWhileWriting, Dies
  <2> QED BY <2>1, <1>2
<1>14. ASSUME \/ LoadAccounts \/ (\E a \in Accounts : CreateAccount(a))
              \/ Connect \/ ConnectFails \/ ReceiveAnswer \/ Timeout
       PROVE  UnroutedInv'
  <2>1. stage # "serve" /\ unrouted' = unrouted
    BY <1>14 DEF LoadAccounts, CreateAccount, IsNext, Connect, ConnectFails, ReceiveAnswer, Timeout, TimedOut
  <2>2. unrouted' = {}
    BY <2>1, <1>1
  <2> QED BY <2>2, <1>2
<1>15. CASE Tick \/ UNCHANGED vars
  <2>1. UNCHANGED <<stage, engine, inbox, unrouted>>
    BY <1>15 DEF Tick, vars
  <2> QED BY <2>1, <1>1, <1>2, <1>5
<1> QED BY <1>7, <1>8, <1>9, <1>10, <1>11, <1>12, <1>13, <1>14, <1>15 DEF Next, Cancels, StartUp

\* An engine that executes nothing has on disk what it has in memory, also after every step.
LEMMA SettledStep ==
    ASSUME TypeInv, QuietInv, SettledInv, [Next]_vars
    PROVE  SettledInv'
<1> USE DEF disk, gateway, engines, history
<1>0. engine \in [Engines -> {"down", "listening", "serving", "orphan"}]
      /\ book \in [Ids -> Nat] /\ saved \in [Ids -> Nat]
  BY DEF TypeInv, EngineTypes
<1>1. ASSUME UNCHANGED <<book, saved>>,
             \A e \in Engines :
                \/ engine'[e] \in {"down", "listening"}
                \/ engine'[e] = "serving" /\ stage' # "serve"
                => \/ engine[e] \in {"down", "listening"}
                   \/ engine[e] = "serving" /\ stage # "serve"
      PROVE  SettledInv'
  BY <1>1 DEF SettledInv, Settled
<1>2. ASSUME UNCHANGED <<book, saved, engine>>, stage' # "serve" => stage # "serve" PROVE SettledInv'
  BY <1>2 DEF SettledInv, Settled
<1>3. ASSUME \/ LoadAccounts \/ (\E a \in Accounts : CreateAccount(a)) \/ ReceiveAnswer \/ Timeout
             \/ HandleEvent \/ Tick \/ UNCHANGED vars
      PROVE  UNCHANGED <<book, saved, engine>> /\ (stage' # "serve" => stage # "serve")
  BY <1>3 DEF LoadAccounts, CreateAccount, IsNext, ReceiveAnswer, Timeout, TimedOut, HandleEvent, Tick, vars
<1>4. CASE Connect
  <2>1. UNCHANGED <<book, saved>> /\ stage = "connect"
    BY <1>4 DEF Connect
  <2>2. \A e \in Engines : engine'[e] = IF engine[e] = "listening" THEN "serving" ELSE engine[e]
    BY <1>4 DEF Connect
  <2> QED BY <2>1, <2>2, <1>1
<1>5. CASE ConnectFails
  <2>1. UNCHANGED <<book, saved>> /\ stage = "connect"
    BY <1>5 DEF ConnectFails
  <2>2. \A e \in Engines : engine'[e] \in {"orphan", engine[e]}
    BY <1>5 DEF ConnectFails
  <2> QED BY <2>1, <2>2, <1>1
<1>6. CASE GatewayCrash \/ CrashWhileWriting
  <2>1. UNCHANGED <<book, saved>>
    BY <1>6 DEF GatewayCrash, CrashWhileWriting, Dies
  <2>2. \A e \in Engines : engine'[e] = IF engine[e] = "serving" THEN "orphan" ELSE engine[e]
    BY <1>6 DEF GatewayCrash, CrashWhileWriting, Dies
  <2> QED BY <2>1, <2>2, <1>1
<1>7. ASSUME NEW i \in Ids, PlaceOrder(i) \/ Cancels(i) \/ EngineFills(i) PROVE SettledInv'
  <2>1. UNCHANGED <<stage, engine, saved>>
    BY <1>7 DEF PlaceOrder, Cancels, CancelOrder, EngineFills
  <2>2. \/ book' = book
        \/ /\ \A j \in Ids \ {i} : book'[j] = book[j]
           /\ \/ stage = "serve" /\ engine[Orders[i].engine] = "serving"
              \/ engine[Orders[i].engine] = "orphan"
    BY <1>0, <1>7 DEF PlaceOrder, Cancels, CancelOrder, RestsAt, EngineFills, Serving
  <2>3. CASE book' = book
    BY <2>1, <2>3, <1>2
  <2>4. CASE /\ \A j \in Ids \ {i} : book'[j] = book[j]
             /\ \/ stage = "serve" /\ engine[Orders[i].engine] = "serving"
                \/ engine[Orders[i].engine] = "orphan"
    BY <2>1, <2>4 DEF SettledInv, Settled
  <2> QED BY <2>2, <2>3, <2>4
<1>8. ASSUME NEW e \in Engines, EngineSaves(e) \/ EngineExits(e) \/ EngineCrashes(e) PROVE SettledInv'
  <2>1. /\ stage' = stage
        /\ \/ saved' = OnEngine(e, book, saved) /\ book' = book
           \/ book' = OnEngine(e, saved, book) /\ saved' = saved
        /\ \A d \in Engines \ {e} : engine'[d] = engine[d]
    BY <1>0, <1>8 DEF EngineSaves, EngineExits, EngineCrashes, LosesGateway
  <2>2. \A j \in Ids : /\ Orders[j].engine = e => book'[j] = saved'[j]
                       /\ Orders[j].engine # e => book'[j] = book[j] /\ saved'[j] = saved[j]
    BY <2>1 DEF OnEngine
  <2> QED BY <2>1, <2>2 DEF SettledInv, Settled
<1>9. ASSUME NEW e \in Engines, EngineStarts(e) PROVE SettledInv'
  <2>1. UNCHANGED <<stage, book, saved>> /\ engine[e] = "down"
    BY <1>9 DEF EngineStarts
  <2>2. \A d \in Engines : engine'[d] = IF d = e THEN "listening" ELSE engine[d]
    BY <1>0, <1>9 DEF EngineStarts
  <2> QED BY <2>1, <2>2, <1>1
<1>10. ASSUME NEW e \in Engines, EngineAnswers(e) PROVE UNCHANGED <<stage, book, saved, engine>>
  BY <1>10 DEF EngineAnswers
<1> QED BY <1>2, <1>3, <1>4, <1>5, <1>6, <1>7, <1>8, <1>9, <1>10 DEF Next, Cancels, StartUp

\* Steps that touch neither the answers nor the books of the engines that gave them.
LEMMA AnswersStay ==
    ASSUME TypeInv, NEW A \in SUBSET Engines, AnsweredBy(A), UNCHANGED <<inbox, all_orders, waits>>,
           queried' \subseteq queried, \A e \in A : engine'[e] # "orphan",
           \A i \in Ids : Orders[i].engine \in A => book'[i] = book[i]
    PROVE  AnsweredBy(A)'
<1>1. Reported' = Reported
  BY DEF Reported
<1>2. \A i \in Ids : i \in OpenIn(A)' <=> i \in OpenIn(A)
  BY DEF OpenIn, Open
<1>3. OpenIn(A) \subseteq Ids /\ OpenIn(A)' \subseteq Ids
  BY DEF OpenIn, Open
<1>4. \A i \in OpenIn(A) : Snapshot(i)' = Snapshot(i)
  BY <1>3 DEF OpenIn, Snapshot
<1>5. {Snapshot(i) : i \in OpenIn(A)}' = {Snapshot(i) : i \in OpenIn(A)}
  BY <1>2, <1>3, <1>4
<1> QED BY <1>1, <1>5 DEF AnsweredBy

\* One more engine answers.
LEMMA AnswerComes ==
    ASSUME TypeInv, NEW A \in SUBSET Engines, AnsweredBy(A), NEW e \in Engines, EngineAnswers(e)
    PROVE  AnsweredBy(A \cup {e})'
<1> DEFINE answer == [type |-> "AllOrders", orders |-> OrderSnapshots(e)]
           B == A \cup {e}
<1>1. /\ inbox \in Seq(Events \cup AnswerEvents) /\ waits \in Nat
      /\ queried \subseteq Engines /\ \A d \in queried : engine[d] = "serving"
  BY GatewayRecoveryAssumption DEF TypeInv, InboxTypes, EngineTypes
<1>2. /\ e \in queried /\ queried' = queried \ {e} /\ inbox' = Append(inbox, answer)
      /\ UNCHANGED <<all_orders, waits, engine, book>>
  BY DEF EngineAnswers, Emit
<1>3. /\ A \subseteq Engines \ queried /\ Cardinality(A) = waits + Len(inbox)
      /\ \A d \in A : engine[d] # "orphan"
      /\ Reported = {Snapshot(i) : i \in OpenIn(A)}
  BY DEF AnsweredBy
<1>4. answer \in AnswerEvents
  BY SnapshotTypes DEF AnswerEvents
<1>5. /\ Len(inbox') = Len(inbox) + 1 /\ Len(inbox) \in Nat
      /\ \A k \in 1 .. Len(inbox) : inbox'[k] = inbox[k]
      /\ inbox'[Len(inbox) + 1] = answer
  BY <1>1, <1>2, <1>4
<1>6. Cardinality(B) = waits' + Len(inbox')
  <2>1. IsFiniteSet(Engines)
    BY GatewayRecoveryAssumption, FS_Interval DEF Engines
  <2>2. IsFiniteSet(A) /\ e \notin A
    BY <2>1, <1>2, <1>3, FS_Subset
  <2>3. Cardinality(B) = Cardinality(A) + 1
    BY <2>2, FS_AddElement
  <2> QED BY <2>3, <1>1, <1>2, <1>3, <1>5
<1>7. Reported' = Reported \cup OrderSnapshots(e)
  <2>1. answer.orders = OrderSnapshots(e)
    OBVIOUS
  <2>2. 1 .. Len(inbox') = (1 .. Len(inbox)) \cup {Len(inbox) + 1}
    BY <1>5
  <2> HIDE DEF answer
  <2>3. UNION {inbox'[k].orders : k \in 1 .. Len(inbox')}
           = (UNION {inbox[k].orders : k \in 1 .. Len(inbox)}) \cup answer.orders
    BY <2>2, <1>5
  <2> QED BY <2>1, <2>3, <1>2 DEF Reported
<1>8. {Snapshot(i) : i \in OpenIn(B)} = {Snapshot(i) : i \in OpenIn(A)} \cup OrderSnapshots(e)
  BY DEF OpenIn, OrderSnapshots, Snapshot
<1>9. {Snapshot(i) : i \in OpenIn(B)}' = {Snapshot(i) : i \in OpenIn(B)}
  BY <1>2 DEF OpenIn, Open, Snapshot
<1>10. B \subseteq Engines \ queried' /\ \A d \in B : engine'[d] # "orphan"
  BY <1>1, <1>2, <1>3
<1> QED BY <1>3, <1>6, <1>7, <1>8, <1>9, <1>10 DEF AnsweredBy

\* An answer is received and others are awaited.
LEMMA AnswerReceived ==
    ASSUME TypeInv, QueryInv, NEW A \in SUBSET Engines, AnsweredBy(A), ReceiveAnswer,
           waits + 1 < NumEngines
    PROVE  /\ AnsweredBy(A)' /\ waits' < NumEngines
           /\ \A k \in 1 .. Len(inbox') : inbox'[k] \in AnswerEvents
<1>1. /\ inbox \in Seq(Events \cup AnswerEvents) /\ waits \in Nat /\ NumEngines \in Nat
  BY GatewayRecoveryAssumption DEF TypeInv, InboxTypes
<1>2. /\ stage = "query" /\ inbox # <<>> /\ inbox' = Tail(inbox) /\ waits' = waits + 1
      /\ all_orders' = all_orders \cup IF Head(inbox).type = "AllOrders" THEN Head(inbox).orders ELSE {}
      /\ UNCHANGED <<queried, engine, book>>
  BY DEF ReceiveAnswer, engines
<1>3. \A k \in 1 .. Len(inbox) : inbox[k] \in AnswerEvents
  BY <1>2 DEF QueryInv
<1>4. /\ Len(inbox) \in Nat \ {0} /\ Len(inbox') = Len(inbox) - 1 /\ Head(inbox) = inbox[1]
      /\ \A k \in 1 .. Len(inbox') : inbox'[k] = inbox[k + 1]
  BY <1>1, <1>2
<1>5. inbox[1].type = "AllOrders"
  BY <1>3, <1>4 DEF AnswerEvents
<1>6. Reported' = Reported
  <2>1. all_orders' = all_orders \cup inbox[1].orders
    BY <1>2, <1>4, <1>5
  <2>2. \A k \in 1 .. Len(inbox) : k = 1 \/ (k - 1 \in 1 .. Len(inbox') /\ inbox[k] = inbox'[k - 1])
    BY <1>4
  <2>3. \A k \in 1 .. Len(inbox') : k + 1 \in 1 .. Len(inbox) /\ inbox'[k] = inbox[k + 1]
    BY <1>4
  <2>4. 1 \in 1 .. Len(inbox)
    BY <1>4
  <2>5. ASSUME NEW r \in Reported' PROVE r \in Reported
    BY <2>1, <2>3, <2>4 DEF Reported
  <2>6. ASSUME NEW r \in Reported PROVE r \in Reported'
    BY <2>1, <2>2 DEF Reported
  <2> QED BY <2>5, <2>6
<1>7. {Snapshot(i) : i \in OpenIn(A)}' = {Snapshot(i) : i \in OpenIn(A)}
  BY <1>2 DEF OpenIn, Open, Snapshot
<1>8. Cardinality(A) = waits' + Len(inbox')
  BY <1>1, <1>2, <1>4 DEF AnsweredBy
<1>9. AnsweredBy(A)'
  BY <1>2, <1>6, <1>7, <1>8 DEF AnsweredBy
<1>10. \A k \in 1 .. Len(inbox') : inbox'[k] \in AnswerEvents
  BY <1>3, <1>4
<1> QED BY <1>1, <1>2, <1>9, <1>10

\* The answers stay those of different engines, and true.
LEMMA QueryStep ==
    ASSUME TypeInv, QuietInv, SettledInv, QueryInv, [Next]_vars
    PROVE  QueryInv'
<1> USE DEF disk, gateway, engines, history
<1>0. /\ engine \in [Engines -> {"down", "listening", "serving", "orphan"}]
      /\ book \in [Ids -> Nat] /\ saved \in [Ids -> Nat] /\ NumEngines \in Nat \ {0}
      /\ inbox \in Seq(Events \cup AnswerEvents)
  BY GatewayRecoveryAssumption DEF TypeInv, EngineTypes, InboxTypes
<1>1. ASSUME stage' # "query" PROVE QueryInv'
  BY <1>1 DEF QueryInv
<1>2. ASSUME stage = "query", UNCHANGED <<inbox, all_orders, waits>>, queried' \subseteq queried,
             \A e \in Engines : engine[e] # "orphan" => engine'[e] # "orphan",
             \A i \in Ids : engine[Orders[i].engine] # "orphan" => book'[i] = book[i]
      PROVE  QueryInv'
  <2>1. PICK A \in SUBSET Engines : AnsweredBy(A)
    BY <1>2 DEF QueryInv
  <2>2. \A e \in A : engine[e] # "orphan"
    BY <2>1 DEF AnsweredBy
  <2>3. \A e \in A : engine'[e] # "orphan"
    BY <2>2, <1>2
  <2>4. \A i \in Ids : Orders[i].engine \in A => book'[i] = book[i]
    BY <2>2, <1>2
  <2>5. AnsweredBy(A)'
    BY <2>1, <2>3, <2>4, <1>2, AnswersStay
  <2>6. waits' < NumEngines /\ \A k \in 1 .. Len(inbox') : inbox'[k] \in AnswerEvents
    BY <1>2 DEF QueryInv
  <2> QED BY <2>5, <2>6 DEF QueryInv
<1>3. CASE Connect
  <2>1. stage = "connect" /\ UNCHANGED <<inbox, all_orders, waits>>
    BY <1>3 DEF Connect
  <2>2. inbox' = <<>> /\ all_orders' = {} /\ waits' = 0
    BY <2>1 DEF QuietInv
  <2>3. Reported' = {}
    BY <2>2 DEF Reported
  <2>4. OpenIn({})' = {}
    BY DEF OpenIn
  <2>5. Cardinality({}) = 0 /\ Len(inbox') = 0
    BY <2>2, FS_EmptySet
  <2>6. AnsweredBy({})'
    BY <2>2, <2>3, <2>4, <2>5 DEF AnsweredBy
  <2>7. waits' < NumEngines /\ \A k \in 1 .. Len(inbox') : inbox'[k] \in AnswerEvents
    BY <2>2, <2>5, <1>0
  <2> QED BY <2>6, <2>7 DEF QueryInv
<1>4. CASE ReceiveAnswer
  <2>1. CASE waits + 1 < NumEngines
    <3>1. PICK A \in SUBSET Engines : AnsweredBy(A)
      BY <1>4 DEF ReceiveAnswer, QueryInv
    <3>2. /\ AnsweredBy(A)' /\ waits' < NumEngines
          /\ \A k \in 1 .. Len(inbox') : inbox'[k] \in AnswerEvents
      BY <3>1, <2>1, <1>4, AnswerReceived
    <3> QED BY <3>2 DEF QueryInv
  <2>2. CASE ~(waits + 1 < NumEngines)
    BY <2>2, <1>1, <1>4 DEF ReceiveAnswer, StartServing
  <2> QED BY <2>1, <2>2
<1>5. ASSUME NEW e \in Engines, EngineAnswers(e), stage = "query" PROVE QueryInv'
  <2>1. PICK A \in SUBSET Engines : AnsweredBy(A)
    BY <1>5 DEF QueryInv
  <2>2. AnsweredBy(A \cup {e})' /\ A \cup {e} \in SUBSET Engines
    BY <2>1, <1>5, AnswerComes
  <2>3. waits' < NumEngines
    BY <1>5 DEF QueryInv, EngineAnswers
  <2>4. [type |-> "AllOrders", orders |-> OrderSnapshots(e)] \in AnswerEvents
    BY SnapshotTypes DEF AnswerEvents
  <2>5. \A k \in 1 .. Len(inbox) : inbox[k] \in AnswerEvents
    BY <1>5 DEF QueryInv
  <2>6. inbox' = Append(inbox, [type |-> "AllOrders", orders |-> OrderSnapshots(e)])
    BY <1>5 DEF EngineAnswers, Emit
  <2>7. inbox \in Seq(AnswerEvents)
    BY <2>5, <1>0
  <2>8. inbox' \in Seq(AnswerEvents)
    BY <2>4, <2>6, <2>7
  <2>9. \A k \in 1 .. Len(inbox') : inbox'[k] \in AnswerEvents
    BY <2>8
  <2> QED BY <2>2, <2>3, <2>9 DEF QueryInv
<1>6. ASSUME NEW e \in Engines, EngineSaves(e) \/ EngineExits(e) \/ EngineCrashes(e) \/ EngineStarts(e),
             stage = "query"
      PROVE  QueryInv'
  <2>1. /\ UNCHANGED <<inbox, all_orders, waits>> /\ queried' \subseteq queried
        /\ \A d \in Engines : engine'[d] \in {engine[d], "down", "listening"}
    BY <1>0, <1>6 DEF EngineSaves, EngineExits, EngineCrashes, EngineStarts, LosesGateway
  <2>2. \/ book' = book
        \/ book' = OnEngine(e, saved, book) /\ engine[e] = "orphan"
        \/ book' = OnEngine(e, saved, book) /\ engine[e] \in {"listening", "serving"}
    BY <1>6 DEF EngineSaves, EngineExits, EngineCrashes, EngineStarts
  <2>3. engine[e] \in {"listening", "serving"} => Settled(e)
    BY <1>6 DEF SettledInv
  <2>4. \A i \in Ids : engine[Orders[i].engine] # "orphan" => book'[i] = book[i]
    BY <2>2, <2>3 DEF OnEngine, Settled
  <2> QED BY <2>1, <2>4, <1>2, <1>6
<1>7. ASSUME NEW i \in Ids, EngineFills(i), stage = "query" PROVE QueryInv'
  <2>1. /\ UNCHANGED <<inbox, all_orders, waits, queried, engine>>
        /\ engine[Orders[i].engine] = "orphan"
        /\ \A j \in Ids \ {i} : book'[j] = book[j]
    BY <1>0, <1>7 DEF EngineFills
  <2> QED BY <2>1, <1>2, <1>7
<1>8. ASSUME \/ \E i \in Ids : PlaceOrder(i) \/ Cancels(i) \/ (EngineFills(i) /\ stage # "query")
             \/ \E e \in Engines : /\ stage # "query"
                                   /\ \/ EngineAnswers(e) \/ EngineSaves(e) \/ EngineExits(e)
                                      \/ EngineCrashes(e) \/ EngineStarts(e)
             \/ LoadAccounts \/ (\E a \in Accounts : CreateAccount(a)) \/ ConnectFails \/ Timeout
             \/ HandleEvent \/ Tick \/ GatewayCrash \/ CrashWhileWriting
      PROVE  stage' # "query"
  BY <1>8 DEF PlaceOrder, Cancels, CancelOrder, EngineFills, EngineAnswers, EngineSaves,
              EngineExits, EngineCrashes, EngineStarts, LoadAccounts, CreateAccount, ConnectFails, Timeout, StartServing, HandleEvent,
              Tick, GatewayCrash, CrashWhileWriting, Dies
<1>9. CASE UNCHANGED vars
  <2>1. UNCHANGED <<stage, inbox, all_orders, waits, queried, engine, book>>
    BY <1>9 DEF vars
  <2> QED BY <2>1, <1>1, <1>2
<1> QED BY <1>1, <1>3, <1>4, <1>5, <1>6, <1>7, <1>8, <1>9 DEF Next, Cancels, StartUp

-----------------------------------------------------------------------------
(* Reservations *)

\* What is reserved stays what the process started with plus the tokens in the map.
LEMMA AccountedStep ==
    ASSUME TypeInv, QuietInv, UnroutedInv, QueryInv, ReservationsAccounted, [Next]_vars
    PROVE  ReservationsAccounted'
<1> USE DEF disk, gateway, engines, history
<1>0. /\ Known \subseteq Accounts /\ rebuilt \in [Accounts -> Int]
      /\ \A a \in Known : accounts[a].tentative_reserved \in Int /\ rebuilt[a] \in Int
  BY DEF TypeInv, AccountTypes, AccountState
<1>1. ASSUME stage' # "serve" PROVE ReservationsAccounted'
  BY <1>1 DEF ReservationsAccounted
<1>2. ASSUME UNCHANGED <<stage, accounts, rebuilt>>, Holding' = Holding PROVE ReservationsAccounted'
  BY <1>2, TokensChange DEF ReservationsAccounted, Known
<1>3. \A a : TokensOf(a) \in Nat /\ (Holding = {} => TokensOf(a) = 0)
             /\ (Holding' = Holding => TokensOf(a)' = TokensOf(a))
  BY TokensChange
<1>4. CASE ReceiveAnswer
  <2>1. CASE waits + 1 < NumEngines
    BY <2>1, <1>2, <1>4 DEF ReceiveAnswer, Holding
  <2>2. CASE ~(waits + 1 < NumEngines)
    <3>1. stage = "query" /\ Holding' = Holding
      BY <1>4 DEF ReceiveAnswer, Holding
    <3>2. \A a \in Known : TokensOf(a)' = 0
      BY <3>1, <1>3 DEF QuietInv, Holding
    <3>3. /\ Known' = Known
          /\ \A a \in Known : accounts'[a].tentative_reserved = AmountOf(a, book)
          /\ rebuilt' = [a \in Accounts |-> AmountOf(a, book)]
          /\ \A a \in Accounts : AmountOf(a, book) \in Nat
      BY <2>2, <1>4, Rebuilt
    <3>4. \A a \in Known : rebuilt'[a] = AmountOf(a, book) /\ AmountOf(a, book) \in Nat
      BY <3>3, <1>0
    <3> QED BY <3>2, <3>3, <3>4 DEF ReservationsAccounted
  <2> QED BY <2>1, <2>2
<1>5. CASE Timeout
  <2>1. stage = "query" /\ UNCHANGED <<accounts, rebuilt>> /\ Holding' = Holding
    BY <1>5 DEF Timeout, TimedOut, Holding
  <2>2. /\ \A a \in Known : accounts[a].tentative_reserved = 0 /\ TokensOf(a)' = 0 /\ rebuilt[a] = 0
    BY <2>1, <1>0, <1>3 DEF QuietInv, Nothing, Holding
  <2> QED BY <2>1, <2>2 DEF ReservationsAccounted, Known
<1>6. ASSUME NEW i \in Ids, PlaceOrder(i) PROVE ReservationsAccounted'
  <2>1. stage = "serve" /\ UNCHANGED <<stage, rebuilt>>
    BY <1>6 DEF PlaceOrder
  <2>2. /\ Known' = Known /\ i \notin Holding
        /\ \/ /\ Holding' = Holding \cup {i}
              /\ \A b \in Known : accounts'[b].tentative_reserved = accounts[b].tentative_reserved
                    + IF b = Orders[i].account_id THEN Amount(i, Orders[i].qty) ELSE 0
           \/ Holding' = Holding /\ accounts' = accounts
    BY <1>6, PlacedOrder
  <2>3. CASE Holding' = Holding /\ accounts' = accounts
    BY <2>1, <2>3, <1>2
  <2>4. CASE /\ Holding' = Holding \cup {i}
             /\ \A b \in Known : accounts'[b].tentative_reserved = accounts[b].tentative_reserved
                   + IF b = Orders[i].account_id THEN Amount(i, Orders[i].qty) ELSE 0
    <3>1. \A a : TokensOf(a)' = TokensOf(a) + IF Orders[i].account_id = a
                                              THEN Amount(i, Orders[i].qty) ELSE 0
      BY <2>2, <2>4, TokensChange
    <3>2. Amount(i, Orders[i].qty) \in Nat
      BY OrderFields, AmountFacts
    <3>3. \A a \in Known : accounts[a].tentative_reserved = rebuilt[a] + TokensOf(a)
      BY <2>1 DEF ReservationsAccounted
    <3>4. ASSUME NEW a \in Known
          PROVE  accounts'[a].tentative_reserved = rebuilt[a] + TokensOf(a)'
      BY <2>4, <3>1, <3>2, <3>3, <1>0, <1>3
    <3> QED BY <2>1, <2>2, <3>4 DEF ReservationsAccounted
  <2> QED BY <2>2, <2>3, <2>4
<1>7. CASE HandleEvent
  <2>1. stage = "serve" /\ UNCHANGED <<stage, rebuilt>>
    BY <1>7 DEF HandleEvent
  <2>2. CASE UNCHANGED <<accounts, pending_orders, cancelling>>
    BY <2>1, <2>2, <1>2, <1>7 DEF HandleEvent, Holding
  <2>3. ASSUME NEW i \in Ids, Released(i) PROVE ReservationsAccounted'
    <3>1. /\ accounts' \in [Known -> AccountState] /\ i \in Holding
          /\ Holding' = Holding \ {i}
          /\ \A b \in Known : accounts'[b].tentative_reserved = accounts[b].tentative_reserved
                - IF b = Orders[i].account_id THEN Amount(i, Orders[i].qty) ELSE 0
      BY <2>3, <1>7 DEF Released, Forget, HandleEvent, Holding
    <3>2. Known' = Known
      BY <3>1 DEF Known
    <3>3. \A a : TokensOf(a)' = TokensOf(a) - IF Orders[i].account_id = a
                                              THEN Amount(i, Orders[i].qty) ELSE 0
      BY <3>1, TokensChange
    <3>4. Amount(i, Orders[i].qty) \in Nat
      BY OrderFields, AmountFacts
    <3>5. \A a \in Known : accounts[a].tentative_reserved = rebuilt[a] + TokensOf(a)
      BY <2>1 DEF ReservationsAccounted
    <3>6. ASSUME NEW a \in Known
          PROVE  accounts'[a].tentative_reserved = rebuilt[a] + TokensOf(a)'
      BY <3>1, <3>3, <3>4, <3>5, <1>0, <1>3
    <3> QED BY <2>1, <3>2, <3>6 DEF ReservationsAccounted
  <2> QED BY <2>2, <2>3, <1>7, HandledEvent
<1>8. ASSUME \/ LoadAccounts \/ (\E a \in Accounts : CreateAccount(a)) \/ Connect \/ ConnectFails
             \/ GatewayCrash \/ CrashWhileWriting
      PROVE  stage' # "serve"
  BY <1>8 DEF LoadAccounts, CreateAccount, Connect, ConnectFails, GatewayCrash, CrashWhileWriting, Dies
<1>9. ASSUME \/ \E i \in Ids : Cancels(i) \/ EngineFills(i)
             \/ \E e \in Engines : \/ EngineAnswers(e) \/ EngineSaves(e) \/ EngineExits(e)
                                   \/ EngineCrashes(e) \/ EngineStarts(e)
             \/ Tick \/ UNCHANGED vars
      PROVE  UNCHANGED <<stage, accounts, rebuilt>> /\ Holding' = Holding
  BY <1>9 DEF Cancels, CancelOrder, EngineFills, EngineAnswers, EngineSaves,
              EngineExits, EngineCrashes, EngineStarts, Tick, vars, Holding
<1> QED BY <1>1, <1>2, <1>4, <1>5, <1>6, <1>7, <1>8, <1>9 DEF Next, Cancels, StartUp

\* What the engines can come back with of the orders from before the restart.
LastingLots == Part(before, [i \in Ids |-> Lasting(i)])

\* It has natural numbers as values, and CoverInv is about their amount.
LEMMA LastingType ==
    ASSUME EngineTypes
    PROVE  /\ LastingLots \in [Ids -> Nat]
           /\ \A i \in Ids : LastingLots[i] = IF i \in before THEN Lasting(i) ELSE 0
           /\ \A i \in Ids : Lasting(i) \in Nat /\ book[i] <= Lasting(i) /\ saved[i] <= Lasting(i)
<1>1. \A i \in Ids : book[i] \in Nat /\ saved[i] \in Nat
  BY DEF EngineTypes
<1>2. \A i \in Ids : Lasting(i) \in Nat /\ book[i] <= Lasting(i) /\ saved[i] <= Lasting(i)
  BY <1>1 DEF Lasting
<1> QED BY <1>2 DEF LastingLots, Part

\* The orders from before the restart never need more than was rebuilt.
LEMMA CoverStep ==
    ASSUME TypeInv, QuietInv, SettledInv, QueryInv, CoverInv, [Next]_vars, TypeInv'
    PROVE  CoverInv'
<1> USE DEF disk, gateway, engines, history
<1>0. EngineTypes /\ EngineTypes'
      /\ book \in [Ids -> Nat] /\ saved \in [Ids -> Nat]
  BY DEF TypeInv, EngineTypes
<1>1. ASSUME stage' # "serve" PROVE CoverInv'
  BY <1>1 DEF CoverInv
<1>2. /\ CoverInv <=> (stage = "serve" => \A a \in Accounts : AmountOf(a, LastingLots) <= rebuilt[a])
      /\ CoverInv' <=> (stage' = "serve" => \A a \in Accounts : AmountOf(a, LastingLots') <= rebuilt'[a])
  BY DEF CoverInv, LastingLots, AmountOf, Part, Amount
<1>3. /\ LastingLots \in [Ids -> Nat] /\ LastingLots' \in [Ids -> Nat]
      /\ \A i \in Ids : /\ LastingLots[i] = IF i \in before THEN Lasting(i) ELSE 0
                        /\ LastingLots'[i] = IF i \in before' THEN Lasting(i)' ELSE 0
                        /\ Lasting(i) \in Nat /\ Lasting(i)' \in Nat
                        /\ book[i] <= Lasting(i) /\ saved[i] <= Lasting(i)
  <2>1. \A i \in Ids : book'[i] \in Nat /\ saved'[i] \in Nat
    BY <1>0 DEF EngineTypes
  <2>2. \A i \in Ids : Lasting(i)' \in Nat
    BY <2>1 DEF Lasting
  <2>3. /\ LastingLots' \in [Ids -> Nat]
        /\ \A i \in Ids : LastingLots'[i] = IF i \in before' THEN Lasting(i)' ELSE 0
    BY <2>2 DEF LastingLots, Part
  <2> QED BY <2>2, <2>3, <1>0, LastingType
<1>4. CASE stage = "serve" /\ before' \subseteq before /\ rebuilt' = rebuilt
  <2>1. \A i \in Ids : Moved(i)
    BY BookStep
  <2>2. ASSUME NEW i \in Ids, i \in before' PROVE Lasting(i)' <= Lasting(i)
    <3>1. book'[i] \in Nat /\ saved'[i] \in Nat /\ book[i] \in Nat /\ saved[i] \in Nat
      BY <1>0 DEF EngineTypes
    <3>2. (book'[i] <= book[i] \/ book'[i] = saved[i]) /\ saved'[i] \in {saved[i], book[i]}
      BY <2>1, <2>2, <1>0 DEF Moved
    <3> QED BY <3>1, <3>2 DEF Lasting
  <2>3. \A i \in Ids : LastingLots'[i] <= LastingLots[i]
    BY <2>2, <1>3, <1>4
  <2>4. ASSUME NEW a \in Accounts PROVE AmountOf(a, LastingLots') <= rebuilt[a]
    <3>1. AmountOf(a, LastingLots') <= AmountOf(a, LastingLots)
      BY <2>3, <1>3, AmountOfLess
    <3>2. AmountOf(a, LastingLots') \in Nat /\ AmountOf(a, LastingLots) \in Nat
      BY <1>3, AmountOfType
    <3>3. AmountOf(a, LastingLots) <= rebuilt[a] /\ rebuilt[a] \in Int
      BY <1>2, <1>4 DEF TypeInv, AccountTypes
    <3> QED BY <3>1, <3>2, <3>3
  <2> QED BY <2>4, <1>2, <1>4
<1>5. CASE ReceiveAnswer
  <2>1. stage = "query" /\ UNCHANGED <<book, saved>>
    BY <1>5 DEF ReceiveAnswer
  <2>2. CASE waits + 1 < NumEngines
    BY <2>1, <2>2, <1>1, <1>5 DEF ReceiveAnswer
  <2>3. CASE ~(waits + 1 < NumEngines)
    <3>1. /\ \A e \in Engines : engine[e] # "orphan"
          /\ rebuilt' = [a \in Accounts |-> AmountOf(a, book)]
      BY <2>3, <1>5, Rebuilt
    <3>2. \A e \in Engines : Settled(e)
      BY <2>1, <3>1, <1>0 DEF SettledInv, EngineTypes
    <3>3. \A i \in Ids : book[i] = saved[i]
      BY <3>2, OrderFields DEF Settled
    <3>4. \A i \in Ids : LastingLots'[i] <= book[i]
      BY <3>3, <2>1, <1>0, <1>3 DEF Lasting
    <3>5. \A a : AmountOf(a, LastingLots') <= AmountOf(a, book)
      BY <3>4, <1>0, <1>3, AmountOfLess
    <3> QED BY <3>1, <3>5, <1>2
  <2> QED BY <2>2, <2>3
<1>6. CASE Timeout
  <2>1. stage = "query" /\ UNCHANGED <<before, rebuilt>>
    BY <1>6 DEF Timeout, TimedOut
  <2>2. before' = {} /\ rebuilt' = [a \in Accounts |-> 0]
    BY <2>1 DEF QuietInv, Nothing
  <2>3. \A i \in Ids : LastingLots'[i] = 0
    BY <2>2, <1>3
  <2>4. \A a : AmountOf(a, LastingLots') = 0
    BY <2>3, <1>3, AmountOfType
  <2> QED BY <2>2, <2>4, <1>2
<1>7. ASSUME \/ LoadAccounts \/ (\E a \in Accounts : CreateAccount(a)) \/ Connect \/ ConnectFails
             \/ GatewayCrash \/ CrashWhileWriting
      PROVE  stage' # "serve"
  BY <1>7 DEF LoadAccounts, CreateAccount, Connect, ConnectFails, GatewayCrash, CrashWhileWriting, Dies
<1>8. ASSUME \/ \E i \in Ids : PlaceOrder(i) \/ Cancels(i) \/ EngineFills(i)
             \/ \E e \in Engines : \/ EngineAnswers(e) \/ EngineSaves(e) \/ EngineExits(e)
                                   \/ EngineCrashes(e) \/ EngineStarts(e)
             \/ HandleEvent \/ Tick \/ UNCHANGED vars
      PROVE  UNCHANGED <<stage, rebuilt>> /\ before' \subseteq before
  BY <1>8 DEF PlaceOrder, Cancels, CancelOrder, EngineFills, EngineAnswers, EngineSaves,
              EngineExits, EngineCrashes, EngineStarts, HandleEvent, Tick, vars
<1> QED BY <1>1, <1>4, <1>5, <1>6, <1>7, <1>8 DEF Next, Cancels, StartUp

-----------------------------------------------------------------------------
(* The theorems *)

\* The first start satisfies the invariant.
LEMMA RestartInit == OwnSymbol /\ Init => RestartInv
<1> SUFFICES ASSUME OwnSymbol, Init PROVE RestartInv
  OBVIOUS
<1>1. /\ stage = "down" /\ accounts = Nobody /\ pending_orders = {} /\ cancelling = {} /\ inbox = <<>>
      /\ all_orders = {} /\ waits = 0 /\ updates = 0 /\ journal = <<>> /\ snapshots = {}
      /\ engine = [e \in Engines |-> "listening"] /\ queried = {} /\ book = [i \in Ids |-> 0]
      /\ saved = book /\ sent = 0 /\ ticks = 0 /\ rebuilt = Nothing /\ before = {} /\ unrouted = {}
  BY DEF Init
<1>2. Known = {} /\ accounts \in [{} -> AccountState]
  BY <1>1 DEF Nobody, Known
<1>3. AccountTypes
  BY <1>1, <1>2 DEF AccountTypes, Nothing
<1>4. OrderTypes /\ InboxTypes /\ DiskTypes
  BY <1>1, GatewayRecoveryAssumption DEF OrderTypes, InboxTypes, DiskTypes
<1>5. EngineTypes
  BY <1>1, OrderFields DEF EngineTypes
<1>6. QuietInv
  BY <1>1, <1>2 DEF QuietInv
<1>7. SettledInv /\ UnroutedInv
  BY <1>1 DEF SettledInv, Settled, UnroutedInv
<1>8. QueryInv /\ ReservationsAccounted /\ CoverInv
  BY <1>1 DEF QueryInv, ReservationsAccounted, CoverInv
<1> QED BY <1>1, <1>3, <1>4, <1>5, <1>6, <1>7, <1>8 DEF RestartInv, TypeInv

\* Every step keeps it.
LEMMA RestartStep == RestartInv /\ [Next]_vars => RestartInv'
<1> SUFFICES ASSUME RestartInv, [Next]_vars PROVE RestartInv'
  OBVIOUS
<1>1. /\ TypeInv /\ QuietInv /\ UnroutedInv /\ SettledInv /\ QueryInv
      /\ ReservationsAccounted /\ CoverInv
  BY DEF RestartInv
<1>2. TypeInv'
  BY <1>1, TypeStep
<1>3. QuietInv' /\ SettledInv' /\ UnroutedInv'
  BY <1>1, QuietStep, SettledStep, UnroutedStep
<1>4. QueryInv'
  BY <1>1, QueryStep
<1>5. ReservationsAccounted'
  BY <1>1, AccountedStep
<1>6. CoverInv'
  BY <1>1, <1>2, CoverStep
<1> QED BY <1>2, <1>3, <1>4, <1>5, <1>6 DEF RestartInv

\* The orders from before the restart and those placed since are covered.
LEMMA RestartCovers == RestartInv => RestartCoversOpenOrders
<1> SUFFICES ASSUME RestartInv, stage = "serve", NEW a \in Known
             PROVE  AmountOf(a, Part(before, book)) + TokensOf(a) <= accounts[a].tentative_reserved
  BY DEF RestartCoversOpenOrders
<1>1. EngineTypes /\ a \in Accounts /\ rebuilt[a] \in Int /\ book \in [Ids -> Nat]
  BY DEF RestartInv, TypeInv, AccountTypes, EngineTypes
<1>2. accounts[a].tentative_reserved = rebuilt[a] + TokensOf(a)
  BY DEF RestartInv, ReservationsAccounted
<1>3. AmountOf(a, LastingLots) <= rebuilt[a]
  BY <1>1 DEF RestartInv, CoverInv, LastingLots
<1>4. /\ LastingLots \in [Ids -> Nat]
      /\ \A i \in Ids : /\ LastingLots[i] = IF i \in before THEN Lasting(i) ELSE 0
                        /\ Lasting(i) \in Nat /\ book[i] <= Lasting(i)
  BY <1>1, LastingType
<1>5. Part(before, book) \in [Ids -> Nat] /\ \A i \in Ids : Part(before, book)[i] <= LastingLots[i]
  BY <1>1, <1>4 DEF Part
<1>6. AmountOf(a, Part(before, book)) <= AmountOf(a, LastingLots)
  BY <1>4, <1>5, AmountOfLess
<1>7. AmountOf(a, Part(before, book)) \in Nat /\ AmountOf(a, LastingLots) \in Nat /\ TokensOf(a) \in Nat
  BY <1>4, <1>5, AmountOfType, TokensChange
<1> QED BY <1>1, <1>2, <1>3, <1>6, <1>7

\* The gateway, its files and the engines keep their types through crashes and restarts (stated
\* under OwnSymbol, as the next two, because it rests on the same invariant).
THEOREM RestartTypes == OwnSymbol /\ Spec => []TypeOK
<1>1. RestartInv => TypeOK
  BY TypesAreOK DEF RestartInv
<1> QED BY <1>1, RestartInit, RestartStep, PTL DEF Spec

\* What is reserved is what the process started with plus one token for each order in
\* pending_orders that was routed (the read loop, handle_engine_responses,
\* Reconciliation::rebuild_reservations): the entry that a failed route leaves behind never
\* releases its money again.  For any number of orders, accounts, engines, crashes and faults,
\* of clients whose cancels name the symbol of the order (OwnSymbol) and who give an order an
\* id nothing is left of (Fresh); the code checks neither.
THEOREM ReservationsAccountedFor == OwnSymbol /\ Spec => []ReservationsAccounted
<1>1. RestartInv => ReservationsAccounted
  BY DEF RestartInv
<1> QED BY <1>1, RestartInit, RestartStep, PTL DEF Spec

\* After a reconciliation that every engine answered, the orders found open stay covered beside
\* those placed since, through fills, cancels, lost events, failed routes and crashes of engines
\* that go back to what their disk has, for clients whose cancels name the symbol of the order
\* (OwnSymbol) and who give an order an id nothing is left of (Fresh).
THEOREM OpenOrdersStayCovered == OwnSymbol /\ Spec => []RestartCoversOpenOrders
<1> QED BY RestartCovers, RestartInit, RestartStep, PTL DEF Spec
=============================================================================
