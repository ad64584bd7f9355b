---------------------------- MODULE TokenSupply ----------------------------
(***************************************************************************)
(* common/token_supply.go over the accounts of common/common.go, called by   *)
(* the wallet requests of api/wallets.go, each in a goroutine of its own.    *)
(* A mint or a burn holds ts.mu to its end, but every look at the accounts   *)
(* and every update of one takes stateMutex anew, and the owner of a wallet  *)
(* may pay into it or out of it in between.  A request may come before       *)
(* main.go has initialized the supply (the API server is started first), and *)
(* nothing keeps it from naming the treasury's own account.                   *)
(***************************************************************************)
EXTENDS Integers, FiniteSets, Functions

CONSTANTS
  Requests,      \* goroutines of the API
  Wallets,       \* account IDs of wallets
  Treasury,      \* the account ID of the treasury
  TotalSupply,
  Amounts,       \* amounts minted, burned and paid
  MaxPayments    \* bound: payments of the owners

NoHolder == "nobody"
NoID == ""       \* the empty account ID

ASSUME SupplyAssumption ==
  /\ IsFiniteSet(Wallets) /\ Treasury \notin Wallets
  /\ NoID \notin Wallets \cup {Treasury} /\ NoHolder \notin Requests
  /\ TotalSupply \in Nat \ {0} /\ Amounts \subseteq Nat \ {0} /\ MaxPayments \in Nat

VARIABLES
  accounts,            \* account ID -> balance, of the registered accounts
  treasuryID,          \* NoID until Initialize
  circulatingSupply,
  tsMu,                \* who holds ts.mu, or NoHolder
  req,                 \* the requests
  payments, paidIn,    \* payments of the owners, and what they paid in
  toItself             \* what the treasury has minted to its own account
supplyVars == <<accounts, treasuryID, circulatingSupply, tsMu, req, payments, paidIn, toItself>>

NoRequest == [pc |-> "idle", kind |-> "mint", wallet |-> NoID, amount |-> 0]

SupplyInit ==
  /\ accounts = [id \in {} |-> 0] /\ treasuryID = NoID /\ circulatingSupply = 0
  /\ tsMu = NoHolder /\ req = [r \in Requests |-> NoRequest]
  /\ payments = 0 /\ paidIn = 0 /\ toItself = 0

-----------------------------------------------------------------------------
Registered(id) == id \in DOMAIN accounts

\* UpdateAccountBalance refuses an unknown account and a balance below zero.
MayUpdate(id, amount) == Registered(id) /\ accounts[id] + amount >= 0
Update(id, amount) == accounts' = [accounts EXCEPT ![id] = @ + amount]

RegisterAccount(id, balance) ==
  accounts' = [k \in DOMAIN accounts \cup {id} |-> IF k = id THEN balance ELSE accounts[k]]

To(r, pc) == req' = [req EXCEPT ![r].pc = pc]

\* The request returns, and ts.mu is unlocked.
Return(r) == req' = [req EXCEPT ![r].pc = "done"] /\ tsMu' = NoHolder

\* main.go, once.
Initialize ==
  /\ tsMu = NoHolder /\ treasuryID = NoID
  /\ treasuryID' = Treasury /\ circulatingSupply' = 0
  /\ RegisterAccount(Treasury, TotalSupply)
  /\ UNCHANGED <<tsMu, req, payments, paidIn, toItself>>

\* handleCreateWallet registers the account of the new wallet, then funds it.
CreateWallet(r, w, a) ==
  /\ req[r].pc = "idle" /\ ~Registered(w)
  /\ RegisterAccount(w, 0)
  /\ req' = [req EXCEPT ![r] = [pc |-> "lock", kind |-> "mint", wallet |-> w, amount |-> a]]
  /\ UNCHANGED <<treasuryID, circulatingSupply, tsMu, payments, paidIn, toItself>>

\* MintTokens, for handleFundWallet too (which has seen the account), and BurnTokens.
AskSupply(r, kind, w, a) ==
  /\ req[r].pc = "idle"
  /\ req' = [req EXCEPT ![r] = [pc |-> "lock", kind |-> kind, wallet |-> w, amount |-> a]]
  /\ UNCHANGED <<accounts, treasuryID, circulatingSupply, tsMu, payments, paidIn, toItself>>

LockSupply(r) ==
  /\ req[r].pc = "lock" /\ tsMu = NoHolder
  /\ tsMu' = r /\ To(r, "check")
  /\ UNCHANGED <<accounts, treasuryID, circulatingSupply, payments, paidIn, toItself>>

From(r) == IF req[r].kind = "mint" THEN treasuryID ELSE req[r].wallet
Into(r) == IF req[r].kind = "mint" THEN req[r].wallet ELSE treasuryID

\* GetAccount, and the balance read outside stateMutex.
CheckFunds(r) ==
  /\ req[r].pc = "check"
  /\ IF MayUpdate(From(r), -req[r].amount) THEN To(r, "debit") /\ UNCHANGED tsMu ELSE Return(r)
  /\ UNCHANGED <<accounts, treasuryID, circulatingSupply, payments, paidIn, toItself>>

Debit(r) ==
  /\ req[r].pc = "debit"
  /\ IF MayUpdate(From(r), -req[r].amount)
     THEN Update(From(r), -req[r].amount) /\ To(r, "credit") /\ UNCHANGED tsMu
     ELSE Return(r) /\ UNCHANGED accounts
  /\ UNCHANGED <<treasuryID, circulatingSupply, payments, paidIn, toItself>>

Credit(r) ==
  /\ req[r].pc = "credit"
  /\ IF MayUpdate(Into(r), req[r].amount)
     THEN Update(Into(r), req[r].amount) /\ To(r, "count")
     ELSE To(r, "revert") /\ UNCHANGED accounts
  /\ UNCHANGED <<tsMu, treasuryID, circulatingSupply, payments, paidIn, toItself>>

\* Bug: a burn, too, is reverted to the treasury.
Revert_ToTreasury(r) ==
  /\ req[r].pc = "revert" /\ Return(r)
  /\ IF MayUpdate(treasuryID, req[r].amount) THEN Update(treasuryID, req[r].amount) ELSE UNCHANGED accounts
  /\ UNCHANGED <<treasuryID, circulatingSupply, payments, paidIn, toItself>>

\* The error of the reverting update is ignored.
Revert(r) ==
  /\ req[r].pc = "revert" /\ Return(r)
  /\ IF MayUpdate(From(r), req[r].amount) THEN Update(From(r), req[r].amount) ELSE UNCHANGED accounts
  /\ UNCHANGED <<treasuryID, circulatingSupply, payments, paidIn, toItself>>

Minted(r) == IF req[r].kind = "mint" THEN req[r].amount ELSE -req[r].amount

Count(r) ==
  /\ req[r].pc = "count" /\ Return(r)
  /\ circulatingSupply' = circulatingSupply + Minted(r)
  /\ toItself' = toItself + IF req[r].wallet = treasuryID THEN Minted(r) ELSE 0
  /\ UNCHANGED <<accounts, treasuryID, payments, paidIn>>

\* FundWallet of wallet.go, with any sign.
FundWallet(w, amount) ==
  /\ payments < MaxPayments /\ MayUpdate(w, amount)
  /\ Update(w, amount) /\ payments' = payments + 1 /\ paidIn' = paidIn + amount
  /\ UNCHANGED <<treasuryID, circulatingSupply, tsMu, req, toItself>>

SupplyNext ==
  \/ Initialize
  \/ \E r \in Requests :
       \/ LockSupply(r) \/ CheckFunds(r) \/ Debit(r) \/ Credit(r) \/ Revert(r) \/ Count(r)
       \/ \E w \in Wallets, a \in Amounts : CreateWallet(r, w, a)
       \/ \E w \in Wallets \cup {Treasury}, a \in Amounts :
            AskSupply(r, "mint", w, a) \/ AskSupply(r, "burn", w, a)
  \/ \E w \in Wallets, a \in Amounts : FundWallet(w, a) \/ FundWallet(w, -a)

SupplySpec == SupplyInit /\ [][SupplyNext]_supplyVars

-----------------------------------------------------------------------------
\* The treasury holds exactly what does not circulate.  Only a request for the
\* treasury's own account, which counts tokens that went nowhere, makes the two differ.
TreasuryBacked ==
  treasuryID # NoID => accounts[Treasury] + circulatingSupply = TotalSupply + toItself

\* The wallets hold exactly what circulates and what their owners paid in.
WalletsBacked ==
  SumFunctionOnSet(accounts, Wallets \cap DOMAIN accounts)
    = circulatingSupply - toItself + paidIn

\* Whenever no mint or burn runs, no token is lost or made up: a request that fails
\* halfway takes back what it did, whatever the owners did to the wallet meanwhile,
\* also when it comes before there is a treasury.
SupplyConserved == tsMu = NoHolder => TreasuryBacked /\ WalletsBacked
=============================================================================
