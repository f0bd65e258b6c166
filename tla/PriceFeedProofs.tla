-------------------------- MODULE PriceFeedProofs --------------------------
(***************************************************************************)
(* The safety properties of the price feeds, for any number of feeds and   *)
(* signers and any timeouts.  Fairness plays no part in them.              *)
(***************************************************************************)
EXTENDS PriceFeed, TLAPS

\* The quotes, the feed accounts and the transactions of the pusher.
QuoteSet == [src : {"none", "pyth", "dia"}, age : Nat]
Signers == Others \union {Pusher, NoKey}
FeedAccounts ==
  [layout : {"none", "legacy", "new"}, id : Feeds \union {NoKey}, authority : Signers,
   published : Nat, quote : QuoteSet]
Transactions == [quote : QuoteSet, left : Nat, awaited : BOOLEAN]

FeedTypes ==
  /\ setup \in Setups
  /\ feed \in [Feeds -> FeedAccounts]
  /\ pool \subseteq Transactions
  /\ held \in QuoteSet
  /\ waited \in Nat /\ waited <= PushTimeout
  /\ success \in Nat

\* A feed of the pusher is one it pushes, and it has the layout with an
\* authority, so that no other signer can create it again.
OwnFeeds ==
  \A f \in Feeds : feed[f].authority = Pusher => feed[f].layout = "new" /\ f \in setup.feeds

\* How old a quote can be: no older than the wait before it is sent, then no
\* older than the time that its transaction has used up, then no older than its
\* account says.
HeldAge == held.age <= waited
PoolAge == \A t \in pool : t.left >= 1 /\ t.quote.age + t.left <= PushTimeout + TxLife
FeedAge ==
  \A f \in Feeds :
    feed[f].authority = Pusher => feed[f].quote.age <= PushTimeout + TxLife + feed[f].published

\* All feeds are the pusher's, and written at most n ticks ago.
AllFresh(n) == \A f \in setup.feeds : feed[f].authority = Pusher /\ feed[f].published <= n

\* Only the push that is under way is waited for, and what it was answered was
\* written since it began.
Answered ==
  /\ pc # "wait" => answer = "none" /\ \A t \in pool : ~t.awaited
  /\ answer = "processed" => AllFresh(waited)

\* A success that the monitor counts is as old as it says.
Counted == success <= HealthMaxStale => AllFresh(success + PushTimeout)

FeedInv ==
  /\ FeedTypes /\ OwnFeeds /\ FeedsFromOneFetch
  /\ HeldAge /\ PoolAge /\ FeedAge /\ Answered /\ Counted

-----------------------------------------------------------------------------
(***************************************************************************)
(* What the oracle program does to the feeds.                              *)
(***************************************************************************)
LEMMA QuoteTypes ==
  /\ NoQuote \in QuoteSet /\ NoQuote.age = 0
  /\ Old \in Nat
  /\ \A src \in {"pyth", "dia"} : [src |-> src, age |-> 0] \in QuoteSet
  BY FeedAssumption DEF NoQuote, QuoteSet, Old

\* A price is stored with the time of the transaction.
LEMMA Stored ==
  ASSUME NEW a \in FeedAccounts, NEW addr, NEW signer \in Signers, NEW id \in Feeds, NEW quote \in QuoteSet,
         NEW x \in process_instruction(a, addr, signer, id, quote)
  PROVE  /\ x \in FeedAccounts /\ x.id = id
         /\ x.layout = "new" /\ x.authority = signer /\ x.published = 0 /\ x.quote = quote
         /\ a.layout = "new" => a.authority = signer
  <1>1. a.layout \in {"none", "legacy", "new"}
    BY DEF FeedAccounts
  <1>2. PICK c \in ensure_feed_account(a, addr, id) : x \in apply_price_update(a, signer, id, quote, c)
    BY DEF process_instruction
  <1>3. a.layout = "new" => c = FALSE
    BY <1>2 DEF ensure_feed_account
  <1>4. /\ x = [layout |-> "new", id |-> id, authority |-> signer, published |-> 0, quote |-> quote]
        /\ c \/ a.authority = signer
    BY <1>2 DEF apply_price_update
  <1>5. x \in FeedAccounts
    BY <1>4 DEF FeedAccounts
  <1> QED BY <1>3, <1>4, <1>5

\* A push writes all the feeds of the pusher.
LEMMA PushedFeeds ==
  ASSUME FeedTypes, NEW quote \in QuoteSet, NEW g \in Pushed(quote)
  PROVE  /\ g \in [Feeds -> FeedAccounts]
         /\ \A f \in setup.feeds :
              /\ f \in Feeds /\ g[f].layout = "new" /\ g[f].authority = Pusher
              /\ g[f].published = 0 /\ g[f].quote = quote
         /\ \A f \in Feeds \ setup.feeds : g[f] = feed[f]
  <1>1. setup.feeds \subseteq Feeds /\ feed \in [Feeds -> FeedAccounts] /\ Pusher \in Signers
    BY FeedAssumption DEF FeedTypes, Setups, Signers
  <1>2. /\ DOMAIN g = Feeds /\ g = [f \in Feeds |-> g[f]]
        /\ \A f \in Feeds : IF f \in setup.feeds THEN g[f] \in process_instruction(feed[f], f, Pusher, f, quote)
                            ELSE g[f] = feed[f]
    BY DEF Pushed
  <1>3. ASSUME NEW f \in setup.feeds
        PROVE  /\ g[f].layout = "new" /\ g[f].authority = Pusher
               /\ g[f].published = 0 /\ g[f].quote = quote
               /\ g[f] \in FeedAccounts
    BY <1>1, <1>2, Stored
  <1>4. \A f \in Feeds : g[f] \in FeedAccounts
    BY <1>1, <1>2, <1>3, Zenon
  <1> QED BY <1>1, <1>2, <1>3, <1>4

\* Ages grow by at most one and are cut off at Old.
LEMMA OlderIs ==
  ASSUME NEW n \in Nat
  PROVE  /\ Older(n) \in Nat /\ Older(n) <= n + 1 /\ Older(n) <= Old
         /\ Older(n) = n + 1 \/ Older(n) = Old
  BY QuoteTypes DEF Older

LEMMA FeedParts ==
  ASSUME FeedTypes
  PROVE  /\ setup.feeds \subseteq Feeds
         /\ \A f \in Feeds : /\ feed[f] \in FeedAccounts /\ feed[f].published \in Nat
                             /\ feed[f].quote \in QuoteSet /\ feed[f].quote.age \in Nat
         /\ \A t \in pool : t.quote \in QuoteSet /\ t.left \in Nat /\ t.quote.age \in Nat
  <1>1. setup.feeds \subseteq Feeds
    BY FeedAssumption DEF FeedTypes, Setups
  <1>2. \A f \in Feeds : /\ feed[f] \in FeedAccounts /\ feed[f].published \in Nat
                         /\ feed[f].quote \in QuoteSet
    BY DEF FeedTypes, FeedAccounts
  <1>3. \A t \in pool : t.quote \in QuoteSet /\ t.left \in Nat
    BY DEF FeedTypes, Transactions
  <1>4. \A q \in QuoteSet : q.age \in Nat
    BY DEF QuoteSet
  <1> QED BY <1>1, <1>2, <1>3, <1>4

-----------------------------------------------------------------------------
(***************************************************************************)
(* Every step keeps the invariant.                                         *)
(***************************************************************************)
LEMMA FeedInvInit ==
  ASSUME Init
  PROVE  FeedInv
  <1>1. /\ pool = {} /\ pc = "balance" /\ held = NoQuote /\ answer = "none" /\ waited = 0
        /\ success = HealthMaxStale + 1 /\ setup \in Setups
        /\ feed = [f \in Feeds |-> IF f \in LegacyFeeds THEN Legacy(f) ELSE Unmade]
    BY DEF Init
  <1>2. Unmade \in FeedAccounts /\ Unmade.authority = NoKey
    BY QuoteTypes DEF Unmade, FeedAccounts, Signers
  <1>3. \A f \in Feeds : Legacy(f) \in FeedAccounts /\ Legacy(f).authority = NoKey
    BY <1>2, Zenon DEF Legacy, FeedAccounts
  <1>4. \A f \in Feeds : feed[f] \in FeedAccounts /\ feed[f].authority # Pusher
    BY <1>1, <1>2, <1>3, FeedAssumption, Zenon
  <1>5. FeedTypes
    BY <1>1, <1>4, QuoteTypes, FeedAssumption DEF FeedTypes
  <1>6. OwnFeeds /\ FeedsFromOneFetch /\ FeedAge
    BY <1>4 DEF OwnFeeds, FeedsFromOneFetch, FeedAge
  <1>7. HeldAge /\ PoolAge /\ Answered /\ Counted
    BY <1>1, QuoteTypes, FeedAssumption DEF HeldAge, PoolAge, Answered, Counted
  <1> QED BY <1>5, <1>6, <1>7 DEF FeedInv

\* The loop away from the wait for a transaction, and what does not concern it.
LEMMA ElsewhereKeeps ==
  ASSUME FeedInv, UNCHANGED <<setup, feed, pool, answer, waited, success>>,
         pc' = pc \/ (pc # "wait" /\ pc' # "wait"), held' \in QuoteSet, held'.age <= waited
  PROVE  FeedInv'
  <1>1. FeedTypes' /\ OwnFeeds' /\ FeedsFromOneFetch' /\ HeldAge'
    BY DEF FeedInv, FeedTypes, OwnFeeds, FeedsFromOneFetch, HeldAge
  <1>2. PoolAge' /\ FeedAge' /\ Answered' /\ Counted'
    BY DEF FeedInv, PoolAge, FeedAge, Answered, Counted, AllFresh
  <1> QED BY <1>1, <1>2 DEF FeedInv

LEMMA SendKeeps ==
  ASSUME FeedInv, SendTx
  PROVE  FeedInv'
  <1> DEFINE tx == [quote |-> held, left |-> TxLife, awaited |-> TRUE]
  <1>1. /\ pool' = pool \union {tx} /\ held' = NoQuote /\ answer' = "none" /\ pc' = "wait"
        /\ UNCHANGED <<setup, feed, waited, success>>
    BY DEF SendTx
  <1>2. /\ FeedTypes /\ HeldAge /\ PoolAge
        /\ OwnFeeds /\ FeedsFromOneFetch /\ FeedAge /\ Counted
    BY DEF FeedInv
  <1>3. /\ held \in QuoteSet /\ held.age \in Nat /\ held.age <= waited
        /\ waited \in Nat /\ waited <= PushTimeout /\ pool \subseteq Transactions
    BY <1>2 DEF FeedTypes, HeldAge, QuoteSet
  <1>4. tx \in Transactions /\ tx.left >= 1 /\ tx.quote.age + tx.left <= PushTimeout + TxLife
    BY <1>3, FeedAssumption DEF Transactions
  <1> HIDE DEF tx
  <1>5. FeedTypes'
    BY <1>1, <1>2, <1>4, QuoteTypes DEF FeedTypes
  <1>6. PoolAge'
    BY <1>1, <1>2, <1>4 DEF PoolAge
  <1>7. HeldAge' /\ Answered'
    BY <1>1, <1>3, QuoteTypes DEF HeldAge, Answered
  <1>8. OwnFeeds' /\ FeedsFromOneFetch' /\ FeedAge' /\ Counted'
    BY <1>1, <1>2 DEF OwnFeeds, FeedsFromOneFetch, FeedAge, Counted, AllFresh
  <1> QED BY <1>5, <1>6, <1>7, <1>8 DEF FeedInv

\* The wait ends: what was processed since it began was written no longer ago
\* than the timeout of a push.
LEMMA EndKeeps ==
  ASSUME FeedInv, EndPush,
         success' = success \/ (answer = "processed" /\ success' = 0)
  PROVE  FeedInv'
  <1> DEFINE dropped(t) == [t EXCEPT !.awaited = FALSE]
  <1>1. /\ pc' = "alert" /\ held' = NoQuote /\ answer' = "none" /\ waited' = 0
        /\ pool' = {dropped(t) : t \in pool} /\ UNCHANGED <<setup, feed>>
    BY DEF EndPush
  <1>2. /\ FeedTypes /\ PoolAge /\ OwnFeeds /\ FeedsFromOneFetch /\ FeedAge /\ Answered /\ Counted
    BY DEF FeedInv
  <1>3. \A t \in pool : /\ dropped(t) \in Transactions /\ ~dropped(t).awaited
                        /\ dropped(t).left = t.left /\ dropped(t).quote = t.quote
    BY <1>2, Zenon DEF FeedTypes, Transactions
  <1> HIDE DEF dropped
  <1>4. FeedTypes'
    <2>1. pool' \subseteq Transactions
      BY <1>1, <1>3, Zenon
    <2>2. success' \in Nat
      BY <1>2 DEF FeedTypes
    <2> QED BY <1>1, <1>2, <2>1, <2>2, QuoteTypes, FeedAssumption DEF FeedTypes
  <1>5. PoolAge'
    BY <1>1, <1>2, <1>3, Zenon DEF PoolAge
  <1>6. HeldAge' /\ Answered'
    <2>1. \A t \in pool' : ~t.awaited
      BY <1>1, <1>3, Zenon
    <2> QED BY <1>1, <2>1, QuoteTypes DEF HeldAge, Answered
  <1>7. OwnFeeds' /\ FeedsFromOneFetch' /\ FeedAge'
    BY <1>1, <1>2 DEF OwnFeeds, FeedsFromOneFetch, FeedAge
  <1>8. Counted'
    <2>1. CASE success' = success
      BY <1>1, <1>2, <2>1 DEF Counted, AllFresh
    <2>2. CASE answer = "processed" /\ success' = 0
      <3>1. AllFresh(waited) /\ waited \in Nat /\ waited <= PushTimeout
        BY <1>2, <2>2 DEF Answered, FeedTypes
      <3>2. \A f \in setup.feeds : feed[f].published \in Nat
        BY <1>2, FeedParts
      <3>3. \A f \in setup.feeds : feed[f].authority = Pusher /\ feed[f].published <= 0 + PushTimeout
        BY <3>1, <3>2, FeedAssumption DEF AllFresh
      <3> QED BY <1>1, <2>2, <3>3 DEF Counted, AllFresh
    <2> QED BY <2>1, <2>2
  <1> QED BY <1>4, <1>5, <1>6, <1>7, <1>8 DEF FeedInv

\* A transaction leaves the pool, and the feeds are not touched.
LEMMA UnpaidKeeps ==
  ASSUME FeedInv, NEW tx \in pool, pool' = pool \ {tx},
         UNCHANGED <<setup, feed, loop, success>>,
         answer' = answer \/ (tx.awaited /\ answer' = "failed")
  PROVE  FeedInv'
  <1>1. pc' = pc /\ held' = held /\ waited' = waited
    BY DEF loop
  <1>2. FeedTypes' /\ OwnFeeds' /\ FeedsFromOneFetch' /\ HeldAge'
    BY <1>1 DEF FeedInv, FeedTypes, OwnFeeds, FeedsFromOneFetch, HeldAge
  <1>3. PoolAge' /\ FeedAge' /\ Counted'
    BY DEF FeedInv, PoolAge, FeedAge, Counted, AllFresh
  <1>4. Answered'
    BY <1>1 DEF FeedInv, Answered, AllFresh
  <1> QED BY <1>2, <1>3, <1>4 DEF FeedInv

\* A transaction lands: it writes all the feeds of the pusher from one quote.
LEMMA LandingKeeps ==
  ASSUME FeedInv, NEW tx \in pool, pool' = pool \ {tx}, feed' \in Pushed(tx.quote),
         UNCHANGED <<setup, loop, success>>,
         answer' = answer \/ tx.awaited
  PROVE  FeedInv'
  <1> DEFINE q == tx.quote
  <1>1. pc' = pc /\ held' = held /\ waited' = waited
    BY DEF loop
  <1>2. /\ FeedTypes /\ OwnFeeds /\ FeedsFromOneFetch /\ HeldAge
        /\ PoolAge /\ FeedAge /\ Answered /\ Counted
    BY DEF FeedInv
  <1>3. /\ setup.feeds \subseteq Feeds /\ q \in QuoteSet /\ q.age \in Nat /\ tx.left \in Nat
        /\ waited \in Nat /\ success \in Nat
    BY <1>2, FeedParts DEF FeedTypes
  <1>4. /\ feed' \in [Feeds -> FeedAccounts]
        /\ \A f \in Feeds \ setup.feeds : feed'[f] = feed[f]
    BY <1>2, <1>3, PushedFeeds
  <1>5. \A f \in setup.feeds : /\ feed'[f].layout = "new" /\ feed'[f].authority = Pusher
                               /\ feed'[f].published = 0 /\ feed'[f].quote = q
    BY <1>2, <1>3, PushedFeeds
  <1>6. \A f \in Feeds : feed'[f].authority = Pusher => f \in setup.feeds
    BY <1>2, <1>4 DEF OwnFeeds
  <1>7. FeedTypes'
    BY <1>1, <1>2, <1>4 DEF FeedTypes
  <1>8. OwnFeeds' /\ FeedsFromOneFetch'
    BY <1>5, <1>6 DEF OwnFeeds, FeedsFromOneFetch
  <1>9. HeldAge' /\ PoolAge'
    BY <1>1, <1>2 DEF HeldAge, PoolAge
  <1>10. FeedAge'
    <2>1. q.age <= PushTimeout + TxLife + 0
      BY <1>2, <1>3, FeedAssumption DEF PoolAge
    <2> QED BY <1>5, <1>6, <2>1 DEF FeedAge
  <1>11. \A n \in Nat : AllFresh(n)'
    BY <1>5 DEF AllFresh
  <1>12. Answered' /\ Counted'
    <2>1. success + PushTimeout \in Nat
      BY <1>3, FeedAssumption
    <2> QED BY <1>1, <1>2, <1>3, <1>11, <2>1 DEF Answered, Counted
  <1> QED BY <1>7, <1>8, <1>9, <1>10, <1>12 DEF FeedInv

\* Another signer creates a feed or writes its own, and no feed of the pusher.
LEMMA OtherKeeps ==
  ASSUME FeedInv, NEW signer \in Others, NEW addr \in Feeds, NEW id \in Feeds, OtherPush(signer, addr, id)
  PROVE  FeedInv'
  <1>1. PICK x \in process_instruction(feed[addr], addr, signer, id, NoQuote) :
            feed' = [feed EXCEPT ![addr] = x]
    BY Zenon DEF OtherPush
  <1>2. UNCHANGED <<setup, pool, pc, held, waited, answer, success>>
    BY DEF OtherPush, loop
  <1>3. /\ FeedTypes /\ OwnFeeds /\ FeedsFromOneFetch /\ HeldAge
        /\ PoolAge /\ FeedAge /\ Answered /\ Counted
    BY DEF FeedInv
  <1>4. feed[addr] \in FeedAccounts /\ signer \in Signers /\ signer # Pusher
    BY <1>3, FeedParts, FeedAssumption DEF Signers
  <1>5. /\ x \in FeedAccounts /\ x.authority = signer
        /\ feed[addr].layout = "new" => feed[addr].authority = signer
    BY <1>1, <1>4, Stored, QuoteTypes
  <1>6. feed[addr].authority # Pusher
    BY <1>3, <1>4, <1>5 DEF OwnFeeds
  <1>7. /\ feed' \in [Feeds -> FeedAccounts]
        /\ feed'[addr].authority # Pusher
        /\ \A f \in Feeds : f # addr => feed'[f] = feed[f]
    BY <1>1, <1>3, <1>4, <1>5 DEF FeedTypes
  <1>8. \A f \in Feeds : /\ feed'[f].authority = Pusher => feed'[f] = feed[f]
                         /\ feed[f].authority = Pusher => feed'[f] = feed[f]
    BY <1>6, <1>7
  <1>9. FeedTypes' /\ HeldAge' /\ PoolAge'
    BY <1>2, <1>3, <1>7 DEF FeedTypes, HeldAge, PoolAge
  <1>10. OwnFeeds' /\ FeedsFromOneFetch' /\ FeedAge'
    BY <1>2, <1>3, <1>8 DEF OwnFeeds, FeedsFromOneFetch, FeedAge
  <1>11. \A n : AllFresh(n) => AllFresh(n)'
    BY <1>2, <1>3, <1>8, FeedParts DEF AllFresh
  <1>12. Answered' /\ Counted'
    BY <1>2, <1>3, <1>11 DEF Answered, Counted
  <1> QED BY <1>9, <1>10, <1>12 DEF FeedInv

\* What a tick makes of an account and of a transaction.
Aged(a) == [a EXCEPT !.published = Older(@), !.quote.age = Older(@)]
Carried(t) == [t EXCEPT !.quote.age = Older(@), !.left = @ - 1]

LEMMA AgedAccount ==
  ASSUME NEW a \in FeedAccounts
  PROVE  /\ Aged(a) \in FeedAccounts
         /\ Aged(a).layout = a.layout /\ Aged(a).authority = a.authority
         /\ Aged(a).published = Older(a.published)
         /\ Aged(a).quote = [a.quote EXCEPT !.age = Older(a.quote.age)]
         /\ Aged(a).quote.age = Older(a.quote.age)
  <1>1. /\ a.published \in Nat /\ a.quote \in QuoteSet /\ a.quote.age \in Nat
        /\ a.quote = [src |-> a.quote.src, age |-> a.quote.age]
        /\ a = [layout |-> a.layout, id |-> a.id, authority |-> a.authority,
                published |-> a.published, quote |-> a.quote]
    BY DEF FeedAccounts, QuoteSet
  <1>2. Older(a.published) \in Nat /\ Older(a.quote.age) \in Nat
    BY <1>1, OlderIs
  <1>3. [a.quote EXCEPT !.age = Older(a.quote.age)] \in QuoteSet
    BY <1>1, <1>2 DEF QuoteSet
  <1> DEFINE q == [a.quote EXCEPT !.age = Older(a.quote.age)]
  <1>4. q.age = Older(a.quote.age)
    BY <1>1
  <1>5. Aged(a) = [a EXCEPT !.published = Older(a.published), !.quote = q]
    BY <1>1 DEF Aged
  <1> HIDE DEF q
  <1>6. /\ Aged(a).layout = a.layout /\ Aged(a).authority = a.authority
        /\ Aged(a).published = Older(a.published) /\ Aged(a).quote = q /\ Aged(a) \in FeedAccounts
    BY <1>1, <1>2, <1>3, <1>5, Zenon DEF FeedAccounts, q
  <1> QED BY <1>4, <1>6 DEF q

LEMMA CarriedTx ==
  ASSUME NEW t \in Transactions, t.left > 1
  PROVE  /\ Carried(t) \in Transactions /\ Carried(t).awaited = t.awaited
         /\ Carried(t).left = t.left - 1 /\ Carried(t).quote.age = Older(t.quote.age)
  <1>1. t.left \in Nat /\ t.quote \in QuoteSet /\ t.quote.age \in Nat
    BY DEF Transactions, QuoteSet
  <1>2. t.left - 1 \in Nat /\ Older(t.quote.age) \in Nat
    BY <1>1, OlderIs
  <1> DEFINE q == [t.quote EXCEPT !.age = Older(t.quote.age)]
  <1>3. q \in QuoteSet /\ q.age = Older(t.quote.age)
    BY <1>1, <1>2 DEF QuoteSet
  <1>4. Carried(t) = [t EXCEPT !.quote = q, !.left = t.left - 1]
    BY DEF Carried, Transactions
  <1> HIDE DEF q
  <1> QED BY <1>2, <1>3, <1>4, Zenon DEF Transactions

\* A tick ages the accounts, the quotes on their way and the wait alike.
LEMMA TickKeeps ==
  ASSUME FeedInv, Tick
  PROVE  FeedInv'
  <1>1. /\ feed' = [f \in Feeds |-> Aged(feed[f])]
        /\ pool' = {Carried(t) : t \in {u \in pool : u.left > 1}}
    BY Zenon DEF Tick, Aged, Carried
  <1>2. /\ FeedTypes /\ OwnFeeds /\ FeedsFromOneFetch /\ HeldAge
        /\ PoolAge /\ FeedAge /\ Answered /\ Counted
    BY DEF FeedInv
  <1>3. /\ pc \in {"send", "wait"} => waited < PushTimeout
        /\ held' = IF pc = "send" THEN [held EXCEPT !.age = Older(held.age)] ELSE held
        /\ waited' = IF pc \in {"send", "wait"} THEN waited + 1 ELSE waited
        /\ success' = IF success <= HealthMaxStale THEN success + 1 ELSE success
    BY Zenon DEF Tick
  <1>4. setup' = setup /\ pc' = pc /\ answer' = answer
    BY Zenon DEF Tick
  <1>5. ASSUME NEW f \in Feeds
        PROVE  /\ feed'[f] \in FeedAccounts
               /\ feed'[f].layout = feed[f].layout /\ feed'[f].authority = feed[f].authority
               /\ feed'[f].published = Older(feed[f].published)
               /\ feed'[f].quote = [feed[f].quote EXCEPT !.age = Older(feed[f].quote.age)]
               /\ feed'[f].quote.age = Older(feed[f].quote.age)
    <2>1. feed'[f] = Aged(feed[f]) /\ feed[f] \in FeedAccounts
      BY <1>1, <1>2, FeedParts
    <2> QED BY <2>1, AgedAccount
  <1>16. ASSUME NEW t \in pool'
         PROVE  \E u \in pool : /\ u.left > 1 /\ t \in Transactions /\ t.awaited = u.awaited
                                /\ t.left = u.left - 1 /\ t.quote.age = Older(u.quote.age)
    <2>1. PICK u \in pool : u.left > 1 /\ t = Carried(u)
      BY <1>1, <1>16
    <2>2. u \in Transactions
      BY <1>2 DEF FeedTypes
    <2> QED BY <2>1, <2>2, CarriedTx
  <1>6. waited \in Nat /\ waited <= PushTimeout /\ success \in Nat /\ held \in QuoteSet /\ held.age \in Nat
    BY <1>2 DEF FeedTypes, QuoteSet
  <1>7. waited' \in Nat /\ waited' <= PushTimeout /\ success' \in Nat
    BY <1>3, <1>6, FeedAssumption
  <1>8. held' \in QuoteSet /\ HeldAge'
    <2>1. Older(held.age) \in Nat /\ Older(held.age) <= held.age + 1
      BY <1>6, OlderIs
    <2>2. CASE pc = "send"
      <3>1. held' = [held EXCEPT !.age = Older(held.age)] /\ waited' = waited + 1
        BY <1>3, <2>2
      <3>2. held' \in QuoteSet /\ held'.age = Older(held.age)
        BY <1>6, <2>1, <3>1 DEF QuoteSet
      <3>3. Older(held.age) <= waited + 1
        BY <1>2, <1>6, <2>1 DEF HeldAge
      <3> QED BY <3>1, <3>2, <3>3 DEF HeldAge
    <2>3. CASE pc # "send"
      <3>1. held' = held /\ (waited' = waited + 1 \/ waited' = waited)
        BY <1>3, <2>3
      <3> QED BY <1>2, <1>6, <3>1 DEF HeldAge
    <2> QED BY <2>2, <2>3
  <1>9. FeedTypes'
    <2>1. feed' \in [Feeds -> FeedAccounts]
      BY <1>1, <1>5, Zenon
    <2>2. pool' \subseteq Transactions
      BY <1>16
    <2> QED BY <1>2, <1>4, <1>7, <1>8, <2>1, <2>2 DEF FeedTypes
  <1>10. OwnFeeds'
    BY <1>2, <1>4, <1>5, Zenon DEF OwnFeeds
  <1>17. FeedsFromOneFetch'
    <2>1. ASSUME NEW f \in Feeds, NEW g \in Feeds, feed'[f].authority = Pusher, feed'[g].authority = Pusher
          PROVE  feed'[f].quote = feed'[g].quote
      <3>1. feed[f].authority = Pusher /\ feed[g].authority = Pusher
        BY <1>5, <2>1, Zenon
      <3>2. feed[f].quote = feed[g].quote
        BY <1>2, <3>1, Zenon DEF FeedsFromOneFetch
      <3>3. feed'[f].quote = [feed[f].quote EXCEPT !.age = Older(feed[f].quote.age)]
        BY <1>5, Zenon
      <3>4. feed'[g].quote = [feed[g].quote EXCEPT !.age = Older(feed[g].quote.age)]
        BY <1>5, Zenon
      <3> QED BY <3>2, <3>3, <3>4
    <2> QED BY <2>1 DEF FeedsFromOneFetch
  <1>11. PoolAge'
    <2>1. ASSUME NEW t \in pool'
          PROVE  t.left >= 1 /\ t.quote.age + t.left <= PushTimeout + TxLife
      <3>1. PICK u \in pool : u.left > 1 /\ t.left = u.left - 1 /\ t.quote.age = Older(u.quote.age)
        BY <1>16, <2>1
      <3>2. /\ u.left \in Nat /\ u.quote.age \in Nat /\ u.quote.age + u.left <= PushTimeout + TxLife
        BY <1>2, FeedParts DEF PoolAge
      <3>3. Older(u.quote.age) \in Nat /\ Older(u.quote.age) <= u.quote.age + 1
        BY <3>2, OlderIs
      <3> QED BY <3>1, <3>2, <3>3, FeedAssumption
    <2> QED BY <2>1 DEF PoolAge
  <1>12. FeedAge'
    <2>1. ASSUME NEW f \in Feeds, feed[f].authority = Pusher
          PROVE  Older(feed[f].quote.age) <= PushTimeout + TxLife + Older(feed[f].published)
      <3> DEFINE n == feed[f].quote.age
                 p == feed[f].published
      <3>1. n \in Nat /\ p \in Nat /\ n <= PushTimeout + TxLife + p /\ Old \in Nat
        BY <1>2, <2>1, FeedParts, QuoteTypes DEF FeedAge
      <3>2. /\ Older(n) \in Nat /\ Older(n) <= n + 1 /\ Older(n) <= Old
            /\ Older(p) \in Nat /\ (Older(p) = p + 1 \/ Older(p) = Old)
        BY <3>1, OlderIs
      <3> HIDE DEF n, p
      <3>3. Older(n) <= PushTimeout + TxLife + Older(p)
        BY <3>1, <3>2, FeedAssumption
      <3> QED BY <3>3 DEF n, p
    <2> QED BY <1>5, <2>1, Zenon DEF FeedAge
  <1>13. ASSUME NEW n \in Nat, NEW f \in setup.feeds,
                feed[f].authority = Pusher, feed[f].published <= n
         PROVE  feed'[f].authority = Pusher /\ feed'[f].published <= n + 1
    <2>1. f \in Feeds /\ feed[f].published \in Nat
      BY <1>2, FeedParts
    <2>2. Older(feed[f].published) \in Nat /\ Older(feed[f].published) <= feed[f].published + 1
      BY <2>1, OlderIs
    <2>3. feed'[f].authority = feed[f].authority /\ feed'[f].published = Older(feed[f].published)
      BY <1>5, <2>1, Zenon
    <2> QED BY <1>13, <2>1, <2>2, <2>3
  <1>14. Answered'
    <2>1. pc # "wait" => answer = "none" /\ \A t \in pool' : ~t.awaited
      BY <1>2, <1>16 DEF Answered
    <2>2. ASSUME answer = "processed"
          PROVE  \A f \in setup.feeds : feed'[f].authority = Pusher /\ feed'[f].published <= waited'
      <3>1. pc = "wait" /\ AllFresh(waited)
        BY <1>2, <2>2 DEF Answered
      <3>2. waited' = waited + 1
        BY <1>3, <3>1
      <3> QED BY <1>6, <1>13, <3>1, <3>2 DEF AllFresh
    <2> QED BY <1>4, <2>1, <2>2 DEF Answered, AllFresh
  <1>15. Counted'
    <2>1. ASSUME success' <= HealthMaxStale
          PROVE  \A f \in setup.feeds : feed'[f].authority = Pusher /\ feed'[f].published <= success' + PushTimeout
      <3>1. success <= HealthMaxStale /\ success' = success + 1
        BY <1>3, <1>6, <2>1, FeedAssumption
      <3>2. /\ success + PushTimeout \in Nat /\ success' + PushTimeout = (success + PushTimeout) + 1
        BY <1>6, <3>1, FeedAssumption
      <3>3. AllFresh(success + PushTimeout)
        BY <1>2, <3>1 DEF Counted
      <3> QED BY <1>13, <3>2, <3>3 DEF AllFresh
    <2> QED BY <1>4, <2>1 DEF Counted, AllFresh
  <1> QED BY <1>8, <1>9, <1>10, <1>11, <1>12, <1>14, <1>15, <1>17 DEF FeedInv

\* Every step keeps the invariant: one case for each kind of action.
LEMMA FeedStep ==
  ASSUME FeedInv, [Next]_vars
  PROVE  FeedInv'
  <1>1. /\ held \in QuoteSet /\ held.age <= waited /\ waited \in Nat
    BY DEF FeedInv, FeedTypes, HeldAge
  <1>2. ASSUME NEW src \in {"pyth", "dia"}, Fetched(src)
        PROVE  FeedInv'
    <2>1. /\ UNCHANGED <<setup, feed, pool, answer, waited, success>> /\ pc # "wait" /\ pc' # "wait"
          /\ held' = [src |-> src, age |-> 0]
      BY <1>2 DEF Fetched
    <2>2. held' \in QuoteSet /\ held'.age <= waited
      BY <1>1, <2>1, QuoteTypes
    <2> QED BY <2>1, <2>2, ElsewhereKeeps
  <1>3. ASSUME \/ UNCHANGED vars \/ TopUp \/ FetchFailure \/ Sleep
               \/ \E l \in 0..MaxFunds, b \in BOOLEAN : refresh_signer_balance(l, b)
               \/ \E o \in {"quiet", "sent", "failed", "unsure"} : observe(o)
        PROVE  FeedInv'
    <2>1. /\ UNCHANGED <<setup, feed, pool, answer, waited, success>> /\ held' = held
          /\ pc' = pc \/ (pc # "wait" /\ pc' # "wait")
      BY <1>3 DEF vars, loop, TopUp, FetchFailure, Sleep, refresh_signer_balance, observe
    <2> QED BY <1>1, <2>1, ElsewhereKeeps
  <1>4. ASSUME PushEnds \/ PushFails
        PROVE  FeedInv'
    <2>1. EndPush /\ (success' = success \/ (answer = "processed" /\ success' = 0))
      BY <1>4 DEF PushEnds, PushFails, record_success
    <2> QED BY <2>1, EndKeeps
  <1>5. ASSUME NEW tx \in pool, Execute(tx) \/ Unpaid(tx)
        PROVE  FeedInv'
    <2>1. pool' = pool \ {tx} /\ UNCHANGED <<setup, loop, success>>
      BY <1>5 DEF Execute, Unpaid
    <2>2. \/ feed' = feed /\ (answer' = answer \/ (tx.awaited /\ answer' = "failed"))
          \/ feed' \in Pushed(tx.quote) /\ (answer' = answer \/ tx.awaited)
      BY <1>5 DEF Execute, Unpaid
    <2> QED BY <2>1, <2>2, UnpaidKeeps, LandingKeeps
  <1>6. ASSUME NEW s \in Others, NEW f \in Feeds, NEW i \in Feeds, OtherPush(s, f, i)
        PROVE  FeedInv'
    BY <1>6, OtherKeeps
  <1>7. SendTx => FeedInv'
    BY SendKeeps
  <1>8. Tick => FeedInv'
    BY TickKeeps
  <1> QED BY <1>2, <1>3, <1>4, <1>5, <1>6, <1>7, <1>8, Zenon DEF Next, Loop, FetchPyth, FetchDia

\* A market only accepts a price written at most max_age ago.
LEMMA AcceptedIsRecent ==
  ASSUME FeedTypes, NEW f \in Feeds, market_accepts(f)
  PROVE  feed[f].published <= MaxAge
  <1> DEFINE p == PythProvider(f)
             v == View(f)
  <1>1. PICK x \in load_oracle_price(p, v, FALSE) : load_and_validate(x, 0, MaxAge, MaxConfidence)
    BY Zenon DEF market_accepts, load_and_validate_oracle_rate
  <1>2. p.kind = "pyth" /\ v.publish_time = -feed[f].published
    BY DEF PythProvider, View
  <1> HIDE DEF p, v
  <1>3. PICK q : x = Unchecked(q, v.publish_time)
    BY <1>1, <1>2 DEF load_oracle_price, pyth_load
  <1>4. x.publish_time = v.publish_time
    BY <1>3 DEF Unchecked
  <1>5. 0 - x.publish_time <= MaxAge
    BY <1>1 DEF load_and_validate
  <1>6. feed[f].published \in Nat
    BY FeedParts
  <1> QED BY <1>2, <1>4, <1>5, <1>6, FeedAssumption

-----------------------------------------------------------------------------
\* The invariant behind the safety properties of the feeds: in every reachable
\* state the age of each quote the pusher fetched is bounded by the waits it has
\* been through (before it was sent, in its transaction, in its account), only
\* the pusher's own feeds carry its authority, and what it was answered and what
\* it counts as a success is no older than the feeds it stands for.
THEOREM FeedInvariance == Spec => []FeedInv
  <1>1. Init => FeedInv
    BY FeedInvInit
  <1>2. FeedInv /\ [Next]_vars => FeedInv'
    BY FeedStep
  <1> QED BY <1>1, <1>2, PTL DEF Spec

\* The prices of any two feeds the pusher owns come from one fetch, whichever of
\* its transactions time out, fail, or land late and out of order: build_and_send_tx
\* puts an instruction for every feed into one transaction.
THEOREM FeedsComeFromOneFetch == Spec => []FeedsFromOneFetch
  <1>1. FeedInv => FeedsFromOneFetch
    BY DEF FeedInv
  <1> QED BY <1>1, FeedInvariance, PTL

\* A price of the pusher that load_and_validate accepts is at most the push timeout,
\* the life of a transaction and max_age old, although apply_price_update stamps it
\* with the time it lands and not with the time of the quote.
THEOREM AcceptedQuotesAreBounded == Spec => []AcceptedQuoteBounded
  <1>1. FeedInv => AcceptedQuoteBounded
    <2> SUFFICES ASSUME FeedInv, NEW f \in Feeds, market_accepts(f), feed[f].authority = Pusher
                 PROVE  feed[f].quote.age <= PushTimeout + TxLife + MaxAge
      BY DEF AcceptedQuoteBounded
    <2>1. FeedTypes /\ feed[f].quote.age <= PushTimeout + TxLife + feed[f].published
      BY DEF FeedInv, FeedAge
    <2>2. feed[f].published \in Nat /\ feed[f].quote.age \in Nat /\ feed[f].published <= MaxAge
      BY <2>1, FeedParts, AcceptedIsRecent
    <2> QED BY <2>1, <2>2, FeedAssumption
  <1> QED BY <1>1, FeedInvariance, PTL

\* While health_status answers healthy, every feed of the pusher is its own and was
\* written at most HEALTH_MAX_STALE_SECS and one push timeout ago.
THEOREM HealthyIsFresh == Spec => []HealthyMeansFresh
  <1>1. FeedInv => HealthyMeansFresh
    <2> SUFFICES ASSUME FeedInv, success <= HealthMaxStale, NEW f \in setup.feeds
                 PROVE  feed[f].authority = Pusher /\ feed[f].published <= HealthMaxStale + PushTimeout
      BY DEF HealthyMeansFresh, health_status
    <2>1. FeedTypes /\ feed[f].authority = Pusher /\ feed[f].published <= success + PushTimeout
      BY DEF FeedInv, Counted, AllFresh
    <2>2. feed[f].published \in Nat /\ success \in Nat
      BY <2>1, FeedParts DEF FeedTypes
    <2> QED BY <2>1, <2>2, FeedAssumption
  <1> QED BY <1>1, FeedInvariance, PTL
=============================================================================
