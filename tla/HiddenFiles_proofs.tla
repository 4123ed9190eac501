-------------------------- MODULE HiddenFiles_proofs --------------------------
(***************************************************************************)
(* Proofs about HiddenFiles, for every value of its constants.             *)
(***************************************************************************)
EXTENDS HiddenFiles, SequenceTheorems, TLAPS

(* The inductive invariant.                                                *)

\* A row with a password, or with a key, as its status says.
FullRows == {r \in Rows :
    /\ r.status = "PublicKeySet" => r.key # Nothing
    /\ r.status \in {"PasswordSet", "Finished"} => r.sealed # Nothing}

RowsAreFull ==
    /\ mined \in Seq(FullRows)
    /\ row \in Optional(FullRows)

\* The open deal is the last one the collection has counted, and a deal that
\* was reported has its password.
DealIsLast ==
    deal # Nothing =>
        /\ deal.number = count
        /\ deal.reported => deal.sealed # Nothing

\* The indexer knows of a deal only after there was one.
RowsAreCounted == row # Nothing \/ mined # <<>> => count # 0

\* The two readings of the number come in this order.
NumbersWereRead ==
    \A u \in Users : Busy(u, "setPublicKey") =>
        /\ job[u].number <= count
        /\ job[u].key # Nothing =>
              job[u].number <= job[u].key.number /\ job[u].key.number <= count

\* Of a finished deal the indexer answers its own password.
FinishedIsAnswered ==
    row # Nothing /\ row.status = "Finished" =>
        password = [number |-> row.number, sealed |-> row.sealed]

IInv ==
    /\ TypeOK
    /\ RowsAreFull
    /\ DealIsLast
    /\ RowsAreCounted
    /\ NumbersWereRead
    /\ FinishedIsAnswered
    /\ TransferKeyIsItsOwn

\* What the number of a key says of it: nothing for the key of an order.
KeyIsOwn(d) == d.key # Nothing /\ ~d.order => d.key.number = d.number

-----------------------------------------------------------------------------
(* The three kinds of steps: a page works, a transaction is mined, and the *)
(* indexer reads it.                                                       *)

\* The row of a deal has the deal's fields.
LEMMA RowType ==
    ASSUME NEW d \in Deals, NEW status \in Statuses,
           status = "PublicKeySet" => d.key # Nothing,
           status \in {"PasswordSet", "Finished"} => d.sealed # Nothing
    PROVE  RowOf(status, d) \in FullRows /\ RowOf(status, d) \in Rows
BY DEF RowOf, FullRows, Rows, Deals

\* Steps of a page alone: the key or the password that the button made is well
\* typed, and a key was made after its number was read.
LEMMA WorkKeeps ==
    ASSUME IInv, NEW u \in Users, NEW j \in Jobs, Work(u, j),
           j.button = "setPublicKey" =>
              /\ j.number <= count
              /\ j.key # Nothing => j.number <= j.key.number /\ j.key.number <= count
    PROVE  IInv'
<1>1. salt' \in [Users -> Optional(Chains)]
  BY HiddenFilesAssumption DEF IInv, TypeOK, Work, KeepSalt, SaltOf, Optional
<1>2. job' \in [Users -> Optional(Jobs)]
  BY DEF IInv, TypeOK, Work, Optional
<1>3. TypeOK'
  BY <1>1, <1>2 DEF IInv, TypeOK, Work, chainVars, indexerVars
<1>4. NumbersWereRead'
  BY DEF IInv, TypeOK, NumbersWereRead, Busy, Work, chainVars
<1>5. (RowsAreFull /\ DealIsLast /\ RowsAreCounted /\ FinishedIsAnswered /\ TransferKeyIsItsOwn)'
  BY DEF IInv, RowsAreFull, DealIsLast, RowsAreCounted, FinishedIsAnswered,
         TransferKeyIsItsOwn, Work, chainVars, indexerVars
<1> QED BY <1>3, <1>4, <1>5 DEF IInv

\* Transactions: a deal that is the last one, with what its status says, is
\* left to the contract and appended for the indexer.
LEMMA TransactKeeps ==
    ASSUME IInv, NEW status \in Statuses, NEW d \in Deals, Transact(status, d),
           status = "PublicKeySet" => d.key # Nothing,
           status \in {"PasswordSet", "Finished"} => d.sealed # Nothing,
           d.reported => d.sealed # Nothing,
           d.number = count', KeyIsOwn(d),
           owner' \in Optional(Users),
           count' \in 0 .. MaxDeals, count <= count',
           salt' = salt,
           \A u \in Users : job'[u] = job[u] \/ job'[u] = Nothing,
           job' \in [Users -> Optional(Jobs)]
    PROVE  IInv'
<1>1. /\ mined' \in Seq(Rows) /\ mined' \in Seq(FullRows)
      /\ Len(mined') <= MaxLag /\ mined' # <<>>
  <2>1. RowOf(status, d) \in FullRows /\ RowOf(status, d) \in Rows
    BY RowType
  <2>2. /\ mined \in Seq(Rows) /\ mined \in Seq(FullRows)
        /\ Len(mined) < MaxLag /\ mined' = Append(mined, RowOf(status, d))
    BY DEF IInv, TypeOK, RowsAreFull, Transact
  <2>3. Len(mined) \in Nat /\ MaxLag \in Nat
    BY <2>2, HiddenFilesAssumption
  <2> QED BY <2>1, <2>2, <2>3, AppendProperties
<1>2. deal' \in Optional(Deals) /\ (deal' # Nothing => deal' = d)
  BY DEF Transact, Optional
<1>3. UNCHANGED <<creator, file, row, password>>
  BY DEF Transact, indexerVars
<1>4. TypeOK'
  BY <1>1, <1>2, <1>3 DEF IInv, TypeOK
<1>5. RowsAreFull' /\ FinishedIsAnswered'
  BY <1>1, <1>3 DEF IInv, RowsAreFull, FinishedIsAnswered
<1>6. DealIsLast' /\ TransferKeyIsItsOwn'
  BY <1>2 DEF DealIsLast, TransferKeyIsItsOwn, KeyIsOwn
<1>7. RowsAreCounted'
  BY DEF RowsAreCounted, Deals, Numbers
<1>8. NumbersWereRead'
  <2> SUFFICES ASSUME NEW u \in Users, Busy(u, "setPublicKey")'
               PROVE  (/\ job[u].number <= count
                       /\ job[u].key # Nothing =>
                            job[u].number <= job[u].key.number /\ job[u].key.number <= count)'
    BY DEF NumbersWereRead
  <2>1. job'[u] = job[u] /\ Busy(u, "setPublicKey")
    BY DEF Busy
  <2>2. job[u] \in [button : {"setPublicKey"}, number : Numbers, key : Optional(RsaKeys)]
    BY <2>1 DEF IInv, TypeOK, Busy, Jobs, Optional
  <2>3. job[u].number \in Nat /\ (job[u].key # Nothing => job[u].key.number \in Nat)
    BY <2>2 DEF Numbers, Optional, RsaKeys
  <2>4. count \in Nat /\ count' \in Nat
    BY DEF IInv, TypeOK
  <2> QED BY <2>1, <2>3, <2>4 DEF IInv, NumbersWereRead
<1> QED BY <1>4, <1>5, <1>6, <1>7, <1>8 DEF IInv

\* The indexer: the answered password follows the row.
LEMMA IndexKeeps == ASSUME IInv, Index PROVE IInv'
<1>1. mined # <<>> /\ mined \in Seq(Rows) /\ mined \in Seq(FullRows) /\ Len(mined) <= MaxLag
  BY DEF IInv, TypeOK, RowsAreFull, Index
<1>2. /\ row' = Head(mined) /\ row' \in FullRows
      /\ mined' \in Seq(Rows) /\ mined' \in Seq(FullRows) /\ Len(mined') <= MaxLag
  <2>1. Len(mined) \in Nat /\ MaxLag \in Nat
    BY <1>1, HiddenFilesAssumption
  <2>2. row' = Head(mined) /\ mined' = Tail(mined)
    BY DEF Index
  <2>3. row' \in FullRows /\ mined' \in Seq(FullRows)
    BY <1>1, <2>2, HeadTailProperties
  <2>4. mined' \in Seq(Rows) /\ Len(mined') = Len(mined) - 1
    BY <1>1, <2>2, HeadTailProperties
  <2> QED BY <1>1, <2>1, <2>2, <2>3, <2>4
<1>3. password' = PasswordOf(row')
  BY <1>2 DEF Index
<1>4. password' \in Optional(Passwords)
  <2>1. CASE row'.status \in {"PasswordSet", "Finished"}
    <3>1. row'.number \in Numbers /\ row'.sealed \in SealedPasswords
      BY <1>2, <2>1 DEF FullRows, Rows, Optional
    <3> QED BY <2>1, <3>1, <1>3 DEF PasswordOf, Passwords, Optional
  <2>2. CASE row'.status \notin {"PasswordSet", "Finished"}
    BY <2>2, <1>3 DEF PasswordOf, IInv, TypeOK
  <2> QED BY <2>1, <2>2
<1>5. TypeOK'
  BY <1>2, <1>4 DEF IInv, TypeOK, Index, chainVars, pageVars, FullRows, Optional
<1>6. RowsAreFull' /\ FinishedIsAnswered'
  BY <1>2, <1>3 DEF RowsAreFull, FinishedIsAnswered, PasswordOf, Optional
<1>7. RowsAreCounted'
  BY <1>1 DEF IInv, RowsAreCounted, Index, chainVars
<1>8. (DealIsLast /\ NumbersWereRead /\ TransferKeyIsItsOwn)'
  BY DEF IInv, DealIsLast, NumbersWereRead, Busy, TransferKeyIsItsOwn, Index, chainVars, pageVars
<1> QED BY <1>5, <1>6, <1>7, <1>8 DEF IInv

-----------------------------------------------------------------------------
(* Every action is one of the three.                                       *)

\* A button is at work only as one of the jobs.
LEMMA BusyJob ==
    ASSUME IInv, NEW u \in Users
    PROVE  /\ job[u] # Nothing => job[u] \in Jobs
           /\ Busy(u, "mintNFT") => job[u].file \in AesKeys
           /\ Busy(u, "fulfillOrder") => job[u].key \in RsaKeys
           /\ Busy(u, "setPublicKey") =>
                 job[u] \in [button : {"setPublicKey"}, number : Numbers, key : Optional(RsaKeys)]
           /\ Busy(u, "approveTransfer") => job[u].sealed \in SealedPasswords
BY DEF IInv, TypeOK, Busy, Jobs, Optional

\* A button that is done leaves the others as they were.
LEMMA FreeKeeps ==
    ASSUME IInv, NEW u \in Users, Free(u)
    PROVE  /\ job' \in [Users -> Optional(Jobs)]
           /\ \A v \in Users : job'[v] = job[v] \/ job'[v] = Nothing
BY DEF IInv, TypeOK, Free, Optional

\* The salt a page derives with is that of a chain.
LEMMA SaltType == ASSUME TypeOK, NEW u \in Users PROVE SaltOf(u) \in Chains
BY HiddenFilesAssumption DEF TypeOK, SaltOf, Optional

\* A password that the page opened is that of a file or junk.
LEMMA FilePasswordType ==
    ASSUME TypeOK, NEW u \in Users, NEW s \in Chains, FilePassword(u, s) # Nothing
    PROVE  FilePassword(u, s) \in AesKeys \cup {Junk}
<1>1. CASE u = creator
  BY <1>1 DEF FilePassword, AesDerivation, AesKeys
<1>2. CASE u # creator
  <2>1. password # Nothing
    BY <1>2 DEF FilePassword
  <2>2. FilePassword(u, s) = RsaDecrypt(password.sealed, RsaDerivation(u, s, password.number))
    BY <1>2, <2>1 DEF FilePassword
  <2>3. password.sealed \in SealedPasswords
    BY <2>1 DEF TypeOK, Passwords, Optional
  <2> QED BY <2>2, <2>3 DEF RsaDecrypt, SealedPasswords
<1> QED BY <1>1, <1>2

\* What a user may do keeps the invariant.
LEMMA UserStepKeeps == ASSUME IInv, NEW u \in Users, UserStep(u) PROVE IInv'
<1> USE DEF IInv
<1>1. SaltOf(u) \in Chains /\ count \in Nat /\ MaxDeals \in Nat
  BY SaltType, HiddenFilesAssumption DEF TypeOK
<1>2. (row # Nothing => count \in Numbers) /\ (deal # Nothing => deal \in Deals /\ count \in Numbers)
  BY HiddenFilesAssumption DEF RowsAreCounted, DealIsLast, TypeOK, Numbers, Optional, Deals
<1>0. /\ owner \in Optional(Users) /\ count \in 0 .. MaxDeals
      /\ job \in [Users -> Optional(Jobs)]
  BY DEF TypeOK
<1>3. CASE EncryptFile(u)
  <2>1. [button |-> "mintNFT", file |-> AesDerivation(u, SaltOf(u))] \in Jobs
    BY <1>1 DEF Jobs, AesDerivation, AesKeys
  <2> QED BY <1>3, <2>1, WorkKeeps DEF EncryptFile
<1>4. CASE MintNFT(u)
  <2>1. TypeOK'
    BY <1>4, BusyJob, FreeKeeps DEF MintNFT, TypeOK, indexerVars, Optional
  <2>2. NumbersWereRead'
    BY <1>4, FreeKeeps DEF MintNFT, NumbersWereRead, Busy
  <2> QED BY <1>4, <2>1, <2>2 DEF MintNFT, RowsAreFull, DealIsLast, RowsAreCounted,
             FinishedIsAnswered, TransferKeyIsItsOwn, indexerVars
<1>5. ASSUME NEW status \in {"Drafted", "Created"}, NEW to \in Optional(Users), OpenDeal(u, status, to)
      PROVE  IInv'
  <2> DEFINE d == [number |-> count + 1, order |-> status = "Drafted", to |-> to,
                   key |-> Nothing, sealed |-> Nothing, reported |-> FALSE]
  <2>1. d \in Deals /\ KeyIsOwn(d) /\ d.number = count' /\ ~d.reported
    <3>1. count + 1 \in Numbers
      BY <1>1, <1>5 DEF OpenDeal, Numbers
    <3> QED BY <1>5, <3>1 DEF OpenDeal, Deals, KeyIsOwn, Optional
  <2>2. count' \in 0 .. MaxDeals /\ count <= count'
    BY <1>1, <1>5 DEF OpenDeal
  <2>3. Transact(status, d) /\ status \in Statuses /\ status # "PublicKeySet"
        /\ status \notin {"PasswordSet", "Finished"}
    BY <1>5 DEF OpenDeal, Statuses
  <2>4. owner' \in Optional(Users) /\ salt' = salt /\ job' = job /\ job \in [Users -> Optional(Jobs)]
    BY <1>5 DEF OpenDeal, TypeOK, pageVars
  <2> HIDE DEF d
  <2> QED BY <2>1, <2>2, <2>3, <2>4, TransactKeeps
<1>6. CASE CancelTransfer(u)
  <2>1. deal \in Deals /\ Transact("Cancelled", deal) /\ deal.number = count' /\ KeyIsOwn(deal)
        /\ (deal.reported => deal.sealed # Nothing)
    BY <1>2, <1>6 DEF CancelTransfer, DealIsLast, TransferKeyIsItsOwn, KeyIsOwn
  <2>2. owner' \in Optional(Users) /\ count' = count /\ salt' = salt /\ job' = job
        /\ job \in [Users -> Optional(Jobs)] /\ count \in 0 .. MaxDeals
    BY <1>6 DEF CancelTransfer, TypeOK, pageVars
  <2> QED BY <2>1, <2>2, <1>1, TransactKeeps DEF Statuses
<1>7. CASE MakeKeyToBuy(u)
  <2>1. [button |-> "fulfillOrder", key |-> InitBuy(u)] \in Jobs
    BY <1>1, <1>2, <1>7 DEF MakeKeyToBuy, Jobs, InitBuy, RsaDerivation, RsaKeys
  <2> QED BY <1>7, <2>1, WorkKeeps DEF MakeKeyToBuy
<1>8. CASE FulfillOrder(u)
  <2> DEFINE d == [deal EXCEPT !.to = u, !.key = job[u].key]
  <2>0. deal # Nothing /\ deal \in Deals /\ deal.order /\ job[u].key \in RsaKeys
    BY <1>2, <1>8, BusyJob DEF FulfillOrder
  <2>1. d \in Deals /\ d.number = deal.number /\ d.order /\ d.key = job[u].key
        /\ d.sealed = deal.sealed /\ d.reported = deal.reported
    BY <2>0 DEF Deals, Optional
  <2>2. Transact("PublicKeySet", d) /\ owner' = owner /\ count' = count /\ salt' = salt /\ Free(u)
    BY <1>8 DEF FulfillOrder
  <2>3. KeyIsOwn(d)
    BY <2>1 DEF KeyIsOwn
  <2>4. d.key # Nothing
    BY <2>0, <2>1, NothingAssumption
  <2>5. d.number = count' /\ (d.reported => d.sealed # Nothing)
    BY <2>0, <2>1, <2>2 DEF DealIsLast
  <2> HIDE DEF d
  <2> QED BY <2>1, <2>2, <2>3, <2>4, <2>5, <1>0, <1>1, FreeKeeps, TransactKeeps DEF Statuses
<1>9. CASE ReadNumber(u)
  <2>1. [button |-> "setPublicKey", number |-> count, key |-> Nothing] \in Jobs
    BY <1>1, <1>2, <1>9 DEF ReadNumber, Jobs, Optional
  <2> QED BY <1>1, <1>9, <2>1, WorkKeeps DEF ReadNumber
<1>10. CASE MakeKey(u)
  <2> DEFINE j == [job[u] EXCEPT !.key = InitBuy(u)]
  <2>1. job[u] \in [button : {"setPublicKey"}, number : Numbers, key : Optional(RsaKeys)]
        /\ job[u].number <= count
    BY <1>10, BusyJob DEF MakeKey, NumbersWereRead
  <2>2. count \in Numbers
    BY <1>1, <2>1 DEF Numbers, TypeOK
  <2>3. InitBuy(u) \in RsaKeys /\ InitBuy(u).number = count
    BY <1>1, <2>2 DEF InitBuy, RsaDerivation, RsaKeys
  <2>4. j \in Jobs /\ j.number = job[u].number /\ j.key = InitBuy(u)
    BY <2>1, <2>3 DEF Jobs, Optional
  <2>5. Work(u, j)
    BY <1>10 DEF MakeKey
  <2> HIDE DEF j
  <2> QED BY <1>1, <2>1, <2>3, <2>4, <2>5, WorkKeeps
<1>11. CASE SetPublicKey(u)
  <2> DEFINE d == [deal EXCEPT !.key = job[u].key]
  <2>0. /\ deal # Nothing /\ deal \in Deals
        /\ job[u] \in [button : {"setPublicKey"}, number : Numbers, key : Optional(RsaKeys)]
        /\ job[u].key # Nothing /\ job[u].number = count
        /\ job[u].number <= job[u].key.number /\ job[u].key.number <= count
    BY <1>2, <1>11, BusyJob DEF SetPublicKey, NumbersWereRead
  <2>1. d \in Deals /\ d.number = deal.number /\ d.key = job[u].key
        /\ d.sealed = deal.sealed /\ d.reported = deal.reported
    BY <2>0 DEF Deals, Optional
  <2>2. Transact("PublicKeySet", d) /\ owner' = owner /\ count' = count /\ salt' = salt /\ Free(u)
    BY <1>11 DEF SetPublicKey
  <2>3. d.number = count' /\ (d.reported => d.sealed # Nothing)
    BY <2>0, <2>1, <2>2 DEF DealIsLast
  <2>4. job[u].key.number \in Nat
    BY <2>0 DEF Optional, RsaKeys, Numbers
  <2>5. KeyIsOwn(d)
    BY <1>1, <2>0, <2>1, <2>2, <2>3, <2>4 DEF KeyIsOwn
  <2> HIDE DEF d
  <2> QED BY <2>0, <2>1, <2>2, <2>3, <2>5, <1>0, <1>1, FreeKeeps, TransactKeeps DEF Statuses
<1>12. CASE SealPassword(u)
  <2> DEFINE p == FilePassword(u, SaltOf(u))
  <2>1. p \in AesKeys \cup {Junk}
    BY <1>1, <1>12, FilePasswordType DEF SealPassword
  <2>2. row.key \in RsaKeys
    BY <1>12 DEF SealPassword, RowsAreFull, FullRows, Rows, Optional
  <2>3. [button |-> "approveTransfer", sealed |-> RsaEncrypt(p, row.key)] \in Jobs
    BY <2>1, <2>2 DEF Jobs, RsaEncrypt, SealedPasswords
  <2> QED BY <1>12, <2>3, WorkKeeps DEF SealPassword
<1>13. ASSUME NEW sealed \in SealedPasswords, Publish(u, sealed), Free(u) \/ UNCHANGED job
       PROVE  IInv'
  <2> DEFINE d == [deal EXCEPT !.sealed = sealed]
  <2>0. deal # Nothing /\ deal \in Deals /\ deal.sealed = Nothing
    BY <1>2, <1>13 DEF Publish
  <2>1. d \in Deals /\ d.number = deal.number /\ d.key = deal.key /\ d.order = deal.order
        /\ d.sealed = sealed /\ d.reported = deal.reported
    BY <2>0 DEF Deals, Optional
  <2>2. Transact("PasswordSet", d) /\ owner' = owner /\ count' = count /\ salt' = salt
    BY <1>13 DEF Publish
  <2>3. d.number = count' /\ KeyIsOwn(d)
    BY <2>0, <2>1, <2>2 DEF DealIsLast, TransferKeyIsItsOwn, KeyIsOwn
  <2>4. sealed # Nothing
    BY <1>13, NothingAssumption
  <2>5. /\ job' \in [Users -> Optional(Jobs)]
        /\ \A v \in Users : job'[v] = job[v] \/ job'[v] = Nothing
    BY <1>13, FreeKeeps DEF TypeOK
  <2> HIDE DEF d
  <2> QED BY <2>0, <2>1, <2>2, <2>3, <2>4, <2>5, <1>0, <1>1, TransactKeeps DEF Statuses
<1>14. CASE ApproveTransfer(u)
  BY <1>13, <1>14, BusyJob DEF ApproveTransfer
<1>15. CASE PublishJunk(u)
  <2>1. deal.key \in RsaKeys
    BY <1>2, <1>15 DEF PublishJunk, Deals, Optional
  <2>2. RsaEncrypt(Junk, deal.key) \in SealedPasswords
    BY <2>1 DEF RsaEncrypt, SealedPasswords
  <2> QED BY <1>13, <1>15, <2>2 DEF PublishJunk
<1>16. CASE FinalizeTransfer(u)
  <2>1. deal \in Deals /\ Transact("Finished", deal) /\ deal.number = count' /\ KeyIsOwn(deal)
        /\ deal.sealed # Nothing
    BY <1>2, <1>16 DEF FinalizeTransfer, DealIsLast, TransferKeyIsItsOwn, KeyIsOwn
  <2>2. owner' \in Optional(Users) /\ count' = count /\ salt' = salt /\ job' = job
        /\ job \in [Users -> Optional(Jobs)] /\ count \in 0 .. MaxDeals
    BY <1>16, <2>1 DEF FinalizeTransfer, TypeOK, pageVars, Deals
  <2> QED BY <2>1, <2>2, <1>1, TransactKeeps DEF Statuses
<1>17. CASE ReportFraud(u)
  <2> DEFINE d == [deal EXCEPT !.reported = TRUE]
  <2>0. deal # Nothing /\ deal \in Deals /\ deal.sealed # Nothing
    BY <1>2, <1>17 DEF ReportFraud
  <2>1. d \in Deals /\ d.number = deal.number /\ d.key = deal.key /\ d.order = deal.order
        /\ d.sealed = deal.sealed
    BY <2>0 DEF Deals
  <2>2. Transact("FraudReported", d) /\ owner' = owner /\ count' = count /\ salt' = salt /\ job' = job
    BY <1>17 DEF ReportFraud, pageVars
  <2>3. d.number = count' /\ KeyIsOwn(d)
    BY <2>0, <2>1, <2>2 DEF DealIsLast, TransferKeyIsItsOwn, KeyIsOwn
  <2> HIDE DEF d
  <2> QED BY <2>0, <2>1, <2>2, <2>3, <1>0, <1>1, TransactKeeps DEF Statuses
<1>18. CASE GiveUp(u)
  <2>1. TypeOK' /\ NumbersWereRead'
    BY <1>18, FreeKeeps DEF GiveUp, TypeOK, NumbersWereRead, Busy, chainVars, indexerVars
  <2> QED BY <1>18, <2>1 DEF GiveUp, RowsAreFull, DealIsLast, RowsAreCounted,
             FinishedIsAnswered, TransferKeyIsItsOwn, chainVars, indexerVars
<1>19. ASSUME NEW c \in Chains, VisitChain(u, c) PROVE IInv'
  <2>1. TypeOK'
    BY <1>19 DEF VisitChain, TypeOK, chainVars, indexerVars, Optional
  <2> QED BY <1>19, <2>1 DEF VisitChain, RowsAreFull, DealIsLast, RowsAreCounted, NumbersWereRead,
             Busy, FinishedIsAnswered, TransferKeyIsItsOwn, chainVars, indexerVars
<1>20. CASE Reload(u)
  <2>1. TypeOK' /\ NumbersWereRead'
    BY <1>20, FreeKeeps DEF Reload, TypeOK, NumbersWereRead, Busy, chainVars, indexerVars, Optional
  <2> QED BY <1>20, <2>1 DEF Reload, RowsAreFull, DealIsLast, RowsAreCounted,
             FinishedIsAnswered, TransferKeyIsItsOwn, chainVars, indexerVars
<1>21. CASE PlaceOrder(u) \/ \E to \in Users \ {u} : InitTransfer(u, to)
  BY <1>5, <1>21 DEF PlaceOrder, InitTransfer, Optional
<1> QED BY <1>3, <1>4, <1>6, <1>7, <1>8, <1>9, <1>10, <1>11, <1>12, <1>14, <1>15, <1>16,
           <1>17, <1>18, <1>19, <1>20, <1>21 DEF UserStep

\* The decider ends a deal that was reported, so that it has a password.
LEMMA DecisionKeeps == ASSUME IInv, NEW approve \in BOOLEAN, DecideFraud(approve) PROVE IInv'
<1>1. /\ deal \in Deals /\ Transact("Finished", deal) /\ deal.number = count' /\ KeyIsOwn(deal)
      /\ deal.sealed # Nothing
  BY DEF IInv, DecideFraud, DealIsLast, TransferKeyIsItsOwn, KeyIsOwn, TypeOK, Optional
<1>2. /\ owner' \in Optional(Users) /\ count' = count /\ salt' = salt /\ job' = job
      /\ job \in [Users -> Optional(Jobs)] /\ count \in 0 .. MaxDeals
  BY <1>1 DEF IInv, DecideFraud, TypeOK, pageVars, Deals
<1> QED BY <1>1, <1>2, TransactKeeps DEF Statuses

-----------------------------------------------------------------------------
(* The theorems.                                                           *)

\* The invariant holds initially, and every step keeps it.
LEMMA Inductive == Spec => []IInv
<1>1. Init => IInv
  BY HiddenFilesAssumption DEF Init, IInv, TypeOK, RowsAreFull, DealIsLast, RowsAreCounted,
     NumbersWereRead, Busy, FinishedIsAnswered, TransferKeyIsItsOwn, Optional
<1>2. ASSUME IInv, [Next]_vars PROVE IInv'
  <2>1. CASE Next
    BY <1>2, <2>1, UserStepKeeps, DecisionKeeps, IndexKeeps DEF Next
  <2>2. CASE UNCHANGED vars
    BY <1>2, <2>2 DEF vars, IInv, TypeOK, RowsAreFull, DealIsLast, RowsAreCounted,
       NumbersWereRead, Busy, FinishedIsAnswered, TransferKeyIsItsOwn
  <2> QED BY <1>2, <2>1, <2>2
<1> QED BY <1>1, <1>2, PTL DEF Spec

\* TypeOK: no page ever derives a key from a missing salt or the number zero,
\* seals a password it could not open, or takes a password from a row that
\* has none, however far the indexer is behind.
THEOREM TypeCorrect == Spec => []TypeOK
<1>1. IInv => TypeOK
  BY DEF IInv
<1> QED BY <1>1, Inductive, PTL

\* TransferKeyIsItsOwn: whatever the owner cancels and starts again while the
\* receiver's page works, the key that setPublicKey takes for a transfer to a
\* known receiver was made of the number of that transfer.
THEOREM TransferKeysAreOwn == Spec => []TransferKeyIsItsOwn
<1>1. IInv => TransferKeyIsItsOwn
  BY DEF IInv
<1> QED BY <1>1, Inductive, PTL

-----------------------------------------------------------------------------
(* Where passwords and keys come from.                                     *)

\* A password that was sealed is junk or was derived from the minter's seed.
IsMinters(sealed) ==
    sealed # Nothing /\ sealed.password # Junk => sealed.password.seed = creator

\* A deal, or the row of one, whose key was derived from its receiver's seed.
IsReceivers(d) ==
    /\ d.key # Nothing => d.to # Nothing /\ d.key.seed = d.to
    /\ d.sealed # Nothing => d.key # Nothing
    /\ IsMinters(d.sealed)

\* What a page has made of its user's seed.
IsUsers(u, j) ==
    /\ j.button = "mintNFT" => j.file.seed = u
    /\ j.button = "fulfillOrder" => j.key.seed = u
    /\ j.button = "setPublicKey" /\ j.key # Nothing => j.key.seed = u
    /\ j.button = "approveTransfer" => owner # Nothing /\ IsMinters(j.sealed)

Origins ==
    /\ owner = Nothing => count = 0
    /\ file # Nothing => file.seed = creator
    /\ creator # Nothing => file # Nothing
    /\ deal # Nothing => IsReceivers(deal)
    /\ \A i \in DOMAIN mined : IsReceivers(mined[i])
    /\ row # Nothing => IsReceivers(row)
    /\ password # Nothing => count # 0 /\ IsMinters(password.sealed)
    /\ \A u \in Users : job[u] # Nothing => IsUsers(u, job[u])

\* Before the token is minted there is nothing of it.
LEMMA NothingYet ==
    ASSUME IInv, Origins, owner = Nothing
    PROVE  /\ count = 0 /\ deal = Nothing /\ mined = <<>> /\ row = Nothing /\ password = Nothing
           /\ \A u \in Users : ~Busy(u, "approveTransfer")
<1>1. count = 0 /\ row = Nothing /\ mined = <<>> /\ password = Nothing
  BY DEF Origins, IInv, RowsAreCounted
<1>2. deal = Nothing
  BY <1>1 DEF IInv, DealIsLast, TypeOK, Optional, Deals, Numbers
<1>3. \A u \in Users : ~Busy(u, "approveTransfer")
  BY DEF Origins, IsUsers, Busy
<1> QED BY <1>1, <1>2, <1>3

\* A page has made something of its user's seed.
LEMMA WorkIsOwn ==
    ASSUME IInv, Origins, NEW u \in Users, NEW j, Work(u, j), IsUsers(u, j)
    PROVE  Origins'
<1>1. /\ UNCHANGED <<owner, creator, file, count, deal, mined, row, password>>
      /\ job' = [job EXCEPT ![u] = j] /\ job \in [Users -> Optional(Jobs)]
  BY DEF Work, chainVars, indexerVars, IInv, TypeOK
<1>2. \A v \in Users : job'[v] # Nothing => IsUsers(v, job'[v])
  BY <1>1 DEF Origins
<1>3. (\A v \in Users : job[v] # Nothing => IsUsers(v, job[v]))'
  BY <1>1, <1>2 DEF IsUsers, IsMinters
<1> QED BY <1>1, <1>3 DEF Origins, IsReceivers, IsMinters

\* A page has done no more than end what it did.
LEMMA RestIsOwn ==
    ASSUME IInv, Origins, UNCHANGED <<owner, creator, file, count, deal, mined, row, password>>,
           \A v \in Users : job'[v] = job[v] \/ job'[v] = Nothing
    PROVE  Origins'
BY DEF Origins, IsReceivers, IsMinters, IsUsers

\* A transaction was mined.
LEMMA TransactIsOwn ==
    ASSUME IInv, Origins, NEW status, NEW d, Transact(status, d), IsReceivers(d),
           owner' # Nothing, owner # Nothing, count' = count \/ count' = count + 1,
           \A v \in Users : job'[v] = job[v] \/ job'[v] = Nothing
    PROVE  Origins'
<1> DEFINE r == RowOf(status, d)
<1>1. /\ UNCHANGED <<creator, file, row, password>> /\ deal' \in {d, Nothing}
      /\ mined' = Append(mined, r) /\ mined \in Seq(Rows)
  BY DEF Transact, indexerVars, IInv, TypeOK
<1>2. IsReceivers(r)
  BY DEF IsReceivers, RowOf
<1> HIDE DEF r
<1>3. \A i \in DOMAIN mined' : IsReceivers(mined'[i])
  BY <1>1, <1>2 DEF Origins
<1>4. (\A i \in DOMAIN mined : IsReceivers(mined[i]))'
  BY <1>1, <1>3 DEF IsReceivers, IsMinters
<1>5. (deal # Nothing => IsReceivers(deal))'
  BY <1>1 DEF IsReceivers, IsMinters
<1>6. (\A u \in Users : job[u] # Nothing => IsUsers(u, job[u]))'
  BY <1>1 DEF Origins, IsUsers, IsMinters
<1>7. (row # Nothing => IsReceivers(row))' /\ (password # Nothing => count # 0 /\ IsMinters(password.sealed))'
  <2>1. count \in Nat
    BY DEF IInv, TypeOK
  <2> QED BY <1>1, <2>1 DEF Origins, IsReceivers, IsMinters
<1> QED BY <1>1, <1>4, <1>5, <1>6, <1>7 DEF Origins

LEMMA IndexIsOwn ==
    ASSUME IInv, Origins, Index
    PROVE  Origins'
<1>1. /\ UNCHANGED <<owner, creator, file, count, deal, job>> /\ mined # <<>>
      /\ mined' = Tail(mined) /\ row' = Head(mined) /\ password' = PasswordOf(Head(mined))
      /\ mined \in Seq(Rows)
  BY DEF Index, chainVars, pageVars, IInv, TypeOK
<1>2. Head(mined) = mined[1] /\ 1 \in DOMAIN mined
  BY <1>1
<1>3. \A i \in DOMAIN Tail(mined) : i + 1 \in DOMAIN mined /\ Tail(mined)[i] = mined[i + 1]
  BY <1>1
<1>4. (\A i \in DOMAIN mined : IsReceivers(mined[i]))'
  BY <1>1, <1>3 DEF Origins, IsReceivers, IsMinters
<1>5. IsReceivers(Head(mined)) /\ Head(mined) \in Rows
  BY <1>1, <1>2 DEF Origins
<1>6. (row # Nothing => IsReceivers(row))'
  BY <1>1, <1>5 DEF IsReceivers, IsMinters
<1>7. IsMinters(password'.sealed) \/ password' = Nothing
  BY <1>1, <1>5 DEF PasswordOf, Origins, IsReceivers
<1>8. count # 0
  BY <1>1 DEF IInv, RowsAreCounted
<1>9. (password # Nothing => count # 0 /\ IsMinters(password.sealed))'
  BY <1>1, <1>7, <1>8 DEF IsMinters
<1>10. (\A u \in Users : job[u] # Nothing => IsUsers(u, job[u]))'
  BY <1>1 DEF Origins, IsUsers, IsMinters
<1>11. (deal # Nothing => IsReceivers(deal))'
  BY <1>1 DEF Origins, IsReceivers, IsMinters
<1> QED BY <1>1, <1>4, <1>6, <1>9, <1>10, <1>11 DEF Origins

\* What the page opens with the user's keys it was sealed as.
LEMMA OpenedIsMinters ==
    ASSUME IInv, Origins, NEW u \in Users, NEW s \in Chains,
           FilePassword(u, s) # Nothing, FilePassword(u, s) # Junk
    PROVE  FilePassword(u, s).seed = creator
<1>1. CASE u = creator
  BY <1>1 DEF FilePassword, AesDerivation
<1>2. CASE u # creator
  <2>1. password # Nothing
    BY <1>2 DEF FilePassword
  <2>2. FilePassword(u, s) = RsaDecrypt(password.sealed, RsaDerivation(u, s, password.number))
    BY <1>2, <2>1 DEF FilePassword
  <2>3. password.sealed # Nothing
    BY <2>1, NothingAssumption DEF IInv, TypeOK, Passwords, Optional
  <2> QED BY <2>1, <2>2, <2>3 DEF RsaDecrypt, Origins, IsMinters
<1> QED BY <1>1, <1>2

LEMMA UserStepIsOwn ==
    ASSUME IInv, Origins, NEW u \in Users, UserStep(u)
    PROVE  Origins'
<1>1. TypeOK /\ SaltOf(u) \in Chains
  BY SaltType DEF IInv
<1>2. deal # Nothing => owner # Nothing /\ IsReceivers(deal) /\ deal \in Deals
  BY NothingYet DEF Origins, IInv, TypeOK, Optional
<1>u. u # Nothing
  BY HiddenFilesAssumption
<1>3. CASE EncryptFile(u)
  BY <1>3, WorkIsOwn DEF EncryptFile, IsUsers, AesDerivation
<1>4. CASE MintNFT(u)
  <2>1. /\ owner = Nothing /\ owner' = u /\ creator' = u /\ file' = job[u].file
        /\ UNCHANGED <<count, deal, mined, row, password>> /\ Free(u)
    BY <1>4 DEF MintNFT, indexerVars
  <2>2. \A v \in Users : job'[v] = job[v] \/ job'[v] = Nothing
    BY <1>1, <2>1, FreeKeeps DEF TypeOK
  <2>3. file'.seed = u /\ file' # Nothing
    <3>1. job[u].file \in AesKeys
      BY <1>1, <1>4, BusyJob DEF MintNFT
    <3> QED BY <1>4, <2>1, <3>1, NothingAssumption DEF MintNFT, Busy, Origins, IsUsers
  <2>4. count = 0 /\ deal = Nothing /\ mined = <<>> /\ row = Nothing /\ password = Nothing
        /\ \A v \in Users : ~Busy(v, "approveTransfer")
    BY <2>1, NothingYet
  <2>5. (\A v \in Users : job[v] # Nothing => IsUsers(v, job[v]))'
    BY <2>2, <2>4 DEF Origins, IsUsers, Busy
  <2> QED BY <1>u, <2>1, <2>3, <2>4, <2>5 DEF Origins
<1>5. ASSUME NEW status, NEW to, OpenDeal(u, status, to) PROVE Origins'
  <2> DEFINE d == [number |-> count + 1, order |-> status = "Drafted", to |-> to,
                   key |-> Nothing, sealed |-> Nothing, reported |-> FALSE]
  <2>1. Transact(status, d) /\ owner = u /\ owner' = owner /\ job' = job /\ count' = count + 1
    BY <1>5 DEF OpenDeal, pageVars
  <2>2. IsReceivers(d)
    BY DEF IsReceivers, IsMinters
  <2> HIDE DEF d
  <2> QED BY <1>u, <2>1, <2>2, TransactIsOwn
<1>6. CASE CancelTransfer(u)
  BY <1>2, <1>6, TransactIsOwn DEF CancelTransfer, pageVars
<1>7. CASE MakeKeyToBuy(u)
  BY <1>7, WorkIsOwn DEF MakeKeyToBuy, InitBuy, RsaDerivation, IsUsers
<1>8. CASE FulfillOrder(u)
  <2> DEFINE d == [deal EXCEPT !.to = u, !.key = job[u].key]
  <2>1. Transact("PublicKeySet", d) /\ owner' = owner /\ count' = count /\ deal # Nothing /\ Free(u)
    BY <1>8 DEF FulfillOrder
  <2>2. d.key = job[u].key /\ d.to = u /\ d.sealed = deal.sealed
    BY <1>2, <2>1 DEF Deals
  <2>3. job[u].key.seed = u /\ job[u].key # Nothing
    <3>1. job[u].key \in RsaKeys
      BY <1>1, <1>8, BusyJob DEF FulfillOrder
    <3> QED BY <1>8, <3>1, NothingAssumption DEF FulfillOrder, Busy, Origins, IsUsers
  <2>4. IsReceivers(d)
    BY <1>2, <1>u, <2>1, <2>2, <2>3 DEF IsReceivers
  <2>5. \A v \in Users : job'[v] = job[v] \/ job'[v] = Nothing
    BY <1>1, <2>1, FreeKeeps DEF TypeOK
  <2> HIDE DEF d
  <2> QED BY <1>2, <2>1, <2>4, <2>5, TransactIsOwn
<1>9. CASE ReadNumber(u)
  BY <1>9, WorkIsOwn DEF ReadNumber, IsUsers
<1>10. CASE MakeKey(u)
  <2>1. job[u] \in [button : {"setPublicKey"}, number : Numbers, key : Optional(RsaKeys)]
    BY <1>1, <1>10, BusyJob DEF MakeKey
  <2>2. [job[u] EXCEPT !.key = InitBuy(u)].button = "setPublicKey"
        /\ [job[u] EXCEPT !.key = InitBuy(u)].key.seed = u
    BY <2>1 DEF InitBuy, RsaDerivation
  <2> QED BY <1>10, <2>2, WorkIsOwn DEF MakeKey, IsUsers
<1>11. CASE SetPublicKey(u)
  <2> DEFINE d == [deal EXCEPT !.key = job[u].key]
  <2>1. Transact("PublicKeySet", d) /\ owner' = owner /\ count' = count /\ deal # Nothing /\ deal.to = u /\ Free(u)
    BY <1>11 DEF SetPublicKey
  <2>2. d.key = job[u].key /\ d.to = u /\ d.sealed = deal.sealed
    BY <1>2, <2>1 DEF Deals
  <2>3. job[u].key.seed = u /\ job[u].key # Nothing
    BY <1>11 DEF SetPublicKey, Busy, Origins, IsUsers
  <2>4. IsReceivers(d)
    BY <1>2, <1>u, <2>1, <2>2, <2>3 DEF IsReceivers
  <2>5. \A v \in Users : job'[v] = job[v] \/ job'[v] = Nothing
    BY <1>1, <2>1, FreeKeeps DEF TypeOK
  <2> HIDE DEF d
  <2> QED BY <1>2, <2>1, <2>4, <2>5, TransactIsOwn
<1>12. CASE SealPassword(u)
  <2> DEFINE p == FilePassword(u, SaltOf(u))
  <2> DEFINE x == RsaEncrypt(p, row.key)
  <2>1. p # Nothing /\ u = owner /\ Work(u, [button |-> "approveTransfer", sealed |-> x])
    BY <1>12 DEF SealPassword
  <2>2. p # Junk => p.seed = creator
    BY <1>1, <2>1, OpenedIsMinters
  <2>3. IsMinters(x)
    BY <2>2 DEF IsMinters, RsaEncrypt
  <2> HIDE DEF x, p
  <2>4. IsUsers(u, [button |-> "approveTransfer", sealed |-> x])
    BY <1>u, <2>1, <2>3 DEF IsUsers
  <2> QED BY <2>1, <2>4, WorkIsOwn
<1>13. ASSUME NEW sealed, IsMinters(sealed), Publish(u, sealed), Free(u) \/ UNCHANGED job
       PROVE  Origins'
  <2> DEFINE d == [deal EXCEPT !.sealed = sealed]
  <2>1. Transact("PasswordSet", d) /\ owner' = owner /\ count' = count /\ deal # Nothing /\ deal.key # Nothing
    BY <1>13 DEF Publish
  <2>2. d.key = deal.key /\ d.to = deal.to /\ d.sealed = sealed
    BY <1>2, <2>1 DEF Deals
  <2>3. IsReceivers(d)
    BY <1>2, <1>13, <2>1, <2>2 DEF IsReceivers
  <2>4. \A v \in Users : job'[v] = job[v] \/ job'[v] = Nothing
    BY <1>1, <1>13, FreeKeeps DEF TypeOK
  <2> HIDE DEF d
  <2> QED BY <1>2, <2>1, <2>3, <2>4, TransactIsOwn
<1>14. CASE ApproveTransfer(u)
  <2>1. IsMinters(job[u].sealed)
    BY <1>14 DEF ApproveTransfer, Busy, Origins, IsUsers
  <2> QED BY <1>13, <1>14, <2>1 DEF ApproveTransfer
<1>15. CASE PublishJunk(u)
  <2>1. IsMinters(RsaEncrypt(Junk, deal.key))
    BY DEF IsMinters, RsaEncrypt
  <2> QED BY <1>13, <1>15, <2>1 DEF PublishJunk
<1>16. CASE FinalizeTransfer(u)
  <2>1. /\ Transact("Finished", deal) /\ deal # Nothing /\ deal.sealed # Nothing
        /\ owner' = deal.to /\ job' = job /\ count' = count
    BY <1>16 DEF FinalizeTransfer, pageVars
  <2>2. deal.to # Nothing
    BY <1>2, <2>1 DEF IsReceivers
  <2> QED BY <1>2, <2>1, <2>2, TransactIsOwn
<1>17. CASE ReportFraud(u)
  <2> DEFINE d == [deal EXCEPT !.reported = TRUE]
  <2>1. /\ Transact("FraudReported", d) /\ deal # Nothing
        /\ owner' = owner /\ job' = job /\ count' = count
    BY <1>17 DEF ReportFraud, pageVars
  <2>2. d.key = deal.key /\ d.to = deal.to /\ d.sealed = deal.sealed
    BY <1>2, <2>1 DEF Deals
  <2>3. IsReceivers(d)
    BY <1>2, <2>1, <2>2 DEF IsReceivers
  <2> HIDE DEF d
  <2> QED BY <1>2, <2>1, <2>3, TransactIsOwn
<1>18. CASE GiveUp(u) \/ Reload(u) \/ \E c \in Chains : VisitChain(u, c)
  <2>1. /\ UNCHANGED <<owner, creator, file, count, deal, mined, row, password>>
        /\ \A v \in Users : job'[v] = job[v] \/ job'[v] = Nothing
    BY <1>1, <1>18, FreeKeeps DEF GiveUp, Reload, VisitChain, chainVars, indexerVars, TypeOK
  <2> QED BY <2>1, RestIsOwn
<1>19. CASE PlaceOrder(u) \/ \E to \in Users \ {u} : InitTransfer(u, to)
  BY <1>5, <1>19 DEF PlaceOrder, InitTransfer
<1> QED BY <1>3, <1>4, <1>6, <1>7, <1>8, <1>9, <1>10, <1>11, <1>12, <1>14, <1>15, <1>16,
           <1>17, <1>18, <1>19 DEF UserStep

LEMMA DecisionIsOwn ==
    ASSUME IInv, Origins, NEW approve \in BOOLEAN, DecideFraud(approve)
    PROVE  Origins'
<1>1. /\ Transact("Finished", deal) /\ deal # Nothing /\ deal.reported /\ job' = job
      /\ owner' = (IF approve THEN owner ELSE deal.to) /\ count' = count
  BY DEF DecideFraud, pageVars
<1>2. IsReceivers(deal) /\ owner # Nothing
  BY <1>1, NothingYet DEF Origins
<1>3. deal.to # Nothing
  BY <1>1, <1>2 DEF IInv, DealIsLast, IsReceivers
<1> QED BY <1>1, <1>2, <1>3, TransactIsOwn

LEMMA OriginsKnown == Spec => []Origins
<1>1. Init => Origins
  BY DEF Init, Origins
<1>2. ASSUME IInv, Origins, [Next]_vars PROVE Origins'
  <2>1. CASE Next
    BY <1>2, <2>1, UserStepIsOwn, DecisionIsOwn, IndexIsOwn DEF Next
  <2>2. CASE UNCHANGED vars
    BY <1>2, <2>2 DEF vars, Origins, IsReceivers, IsMinters, IsUsers
  <2> QED BY <1>2, <2>1, <2>2
<1> QED BY <1>1, <1>2, Inductive, PTL DEF Spec

\* DeliveredIsReadable: of a finished deal the indexer answers its own number and
\* password; the key was its receiver's, and the password the minter's, however
\* many sellers opened and sealed it in between.
THEOREM DeliveredFilesAreReadable == Spec => []DeliveredIsReadable
<1>1. IInv /\ Origins => DeliveredIsReadable
  <2> SUFFICES ASSUME IInv, Origins, NEW u \in Users, Settled(u), row.sealed.password # Junk,
                      row.sealed.key = row.key, row.key.number = row.number,
                      AtHome({file, row.key, row.sealed.password})
               PROVE  CanRead(u)
    BY DEF DeliveredIsReadable
  <2>1. u # creator /\ password = [number |-> row.number, sealed |-> row.sealed] /\ u = row.to
    BY DEF Settled, IInv, FinishedIsAnswered
  <2>2. /\ row.sealed \in SealedPasswords /\ row.sealed # Nothing /\ row.number \in Numbers
        /\ row # Nothing /\ IsReceivers(row)
    BY NothingAssumption DEF Settled, IInv, RowsAreFull, FullRows, Rows, Optional, Origins
  <2>3. row.key = RsaDerivation(u, Home, row.number)
    <3>1. row.key \in RsaKeys /\ row.key.seed = u
      BY <2>1, <2>2 DEF IsReceivers, SealedPasswords
    <3> QED BY <3>1 DEF RsaKeys, RsaDerivation, AtHome
  <2>4. row.sealed.password \in AesKeys /\ row.sealed.password.seed = creator
    BY <2>2 DEF IsReceivers, IsMinters, SealedPasswords
  <2>5. file \in AesKeys /\ file # Nothing /\ file.seed = creator
    <3>1. creator # Nothing
      BY <2>4, HiddenFilesAssumption DEF AesKeys
    <3> QED BY <3>1 DEF Origins, IInv, TypeOK, Optional
  <2>6. row.sealed.password = file
    BY <2>4, <2>5 DEF AesKeys, AtHome
  <2>7. password # Nothing
    BY <2>1, <2>2, NothingAssumption DEF Passwords
  <2>8. FilePassword(u, Home) = RsaDecrypt(password.sealed, RsaDerivation(u, Home, password.number))
    BY <2>1, <2>7 DEF FilePassword
  <2>9. FilePassword(u, Home) = file
    BY <2>1, <2>3, <2>6, <2>8 DEF RsaDecrypt
  <2> QED BY <2>5, <2>9 DEF CanRead
<1> QED BY <1>1, Inductive, OriginsKnown, PTL

=============================================================================
