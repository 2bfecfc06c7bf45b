--------------------------- MODULE AccountsProofs ---------------------------
(***************************************************************************)
(* Pairing codes bring in one device each, keys and their devices belong   *)
(* to one account, and a scope comes from nothing but a key that has it or *)
(* a pairing: for any number of accounts, devices, keys, codes, scopes and *)
(* threads.                                                                *)
(***************************************************************************)
EXTENDS Accounts, TLAPS

KeyRow == [account : Accounts, device : Devices, scopes : (SUBSET Scopes) \ {{}}, revoked : BOOLEAN]
CodeRow == [account : Accounts, used : BOOLEAN, expired : BOOLEAN]
Pair == [at : {"pair"}, code : Codes]
Call == [at : {"call"}, account : Accounts, device : Devices, scopes : (SUBSET Scopes) \ {{}}]

Shape ==
  /\ device \in [Devices -> Accounts \cup {Nobody}]
  /\ apiKey \in [ApiKeys -> KeyRow \cup {NoApiKey}]
  /\ code \in [Codes -> CodeRow \cup {NoCode}]
  /\ thread \in [Threads -> {IdleThread} \cup Pair \cup Call]
  /\ paired \in [Codes -> Nat]

(* The row lock: one thread at most is past the check of a code's used_at, *)
(* and what it saw still holds.                                            *)
Locked ==
  \A t \in Threads : thread[t].at = "pair" =>
    /\ Exists(code, thread[t].code) /\ ~code[thread[t].code].used
    /\ \A u \in Threads : thread[u].at = "pair" /\ thread[u].code = thread[t].code => u = t

Spent ==
  \A c \in Codes : /\ paired[c] <= 1
                   /\ paired[c] = 1 => Exists(code, c) /\ code[c].used

(* What a thread read of a key says of the device what the table says.     *)
Owned ==
  /\ OneAccount
  /\ \A t \in Threads : thread[t].at = "call" => device[thread[t].device] = thread[t].account

Inv == Shape /\ Locked /\ Spent /\ Owned

LEMMA KeyCases ==
  ASSUME Shape, NEW k \in ApiKeys
  PROVE  /\ Exists(apiKey, k) => apiKey[k] \in KeyRow
         /\ ~Exists(apiKey, k) => apiKey[k] = NoApiKey
<1>1. Nobody \notin Accounts
  BY AccountsAssumption DEF AccountsAssumption
<1>2. NoApiKey.account = Nobody
  BY DEF NoApiKey
<1>3. \A row \in KeyRow : row.account \in Accounts
  BY DEF KeyRow
<1> QED BY <1>1, <1>2, <1>3 DEF Shape, Exists

LEMMA CodeCases ==
  ASSUME Shape, NEW c \in Codes
  PROVE  /\ Exists(code, c) => code[c] \in CodeRow
         /\ ~Exists(code, c) => code[c] = NoCode
<1>1. Nobody \notin Accounts
  BY AccountsAssumption DEF AccountsAssumption
<1>2. NoCode.account = Nobody
  BY DEF NoCode
<1>3. \A row \in CodeRow : row.account \in Accounts
  BY DEF CodeRow
<1> QED BY <1>1, <1>2, <1>3 DEF Shape, Exists

LEMMA ThreadCases ==
  ASSUME Shape, NEW t \in Threads
  PROVE  /\ thread[t].at = "pair" => thread[t] \in Pair
         /\ thread[t].at = "call" => thread[t] \in Call
         /\ thread[t].at \in {"idle", "pair", "call"}
BY DEF Shape, IdleThread, Pair, Call

LEMMA InvInit == Init => Inv
<1> SUFFICES ASSUME Init PROVE Inv
  OBVIOUS
<1>1. Shape
  <2>1. device \in [Devices -> Accounts \cup {Nobody}]
    BY DEF Init
  <2>2. apiKey \in [ApiKeys -> KeyRow \cup {NoApiKey}]
    BY DEF Init
  <2>3. code \in [Codes -> CodeRow \cup {NoCode}]
    BY DEF Init
  <2>4. thread \in [Threads -> {IdleThread} \cup Pair \cup Call]
    BY DEF Init
  <2>5. paired \in [Codes -> Nat]
    BY DEF Init
  <2> QED BY <2>1, <2>2, <2>3, <2>4, <2>5 DEF Shape
<1>2. \A t \in Threads : thread[t].at = "idle"
  BY DEF Init, IdleThread
<1>3. \A k \in ApiKeys : ~Exists(apiKey, k)
  BY DEF Init, Exists, NoApiKey
<1>4. \A c \in Codes : paired[c] = 0
  BY DEF Init
<1> QED BY <1>1, <1>2, <1>3, <1>4 DEF Inv, Locked, Spent, Owned, OneAccount

(* A device and its first key, for an account: register and pair.          *)
LEMMA ProvisionStep ==
  ASSUME Inv, NEW a \in Accounts, NEW d \in Devices, NEW k \in ApiKeys, Provision(a, d, k)
  PROVE  /\ device' \in [Devices -> Accounts \cup {Nobody}]
         /\ apiKey' \in [ApiKeys -> KeyRow \cup {NoApiKey}]
         /\ OneAccount'
         /\ \A e \in Devices : device[e] # Nobody => device'[e] = device[e]
<1>1. /\ device[d] = Nobody
      /\ device' = [device EXCEPT ![d] = a]
      /\ apiKey' = [apiKey EXCEPT ![k] =
                     [account |-> a, device |-> d, scopes |-> FullScopes, revoked |-> FALSE]]
  BY DEF Provision
<1> DEFINE new == [account |-> a, device |-> d, scopes |-> FullScopes, revoked |-> FALSE]
<1>2. "send" \in FullScopes /\ FullScopes \subseteq Scopes /\ Nobody \notin Accounts
  BY AccountsAssumption DEF AccountsAssumption
<1>3. new \in KeyRow /\ new.account = a /\ new.device = d
  BY <1>2 DEF KeyRow
<1> HIDE DEF new
<1>4. apiKey' = [apiKey EXCEPT ![k] = new]
  BY <1>1 DEF new
<1>5. apiKey' \in [ApiKeys -> KeyRow \cup {NoApiKey}]
  BY <1>3, <1>4 DEF Inv, Shape
<1>6. /\ device' \in [Devices -> Accounts \cup {Nobody}] /\ device'[d] = a
      /\ \A e \in Devices : e # d => device'[e] = device[e]
  BY <1>1 DEF Inv, Shape
<1>7. ASSUME NEW l \in ApiKeys, Exists(apiKey', l)
      PROVE  device'[apiKey'[l].device] = apiKey'[l].account
  <2>1. CASE l = k
    BY <1>3, <1>4, <1>6, <2>1 DEF Inv, Shape
  <2>2. CASE l # k
    <3>1. apiKey'[l] = apiKey[l] /\ Exists(apiKey, l)
      BY <1>4, <1>7, <2>2 DEF Inv, Shape, Exists
    <3>2. apiKey[l] \in KeyRow /\ device[apiKey[l].device] = apiKey[l].account
      BY <3>1, KeyCases DEF Inv, Owned, OneAccount
    <3>3. apiKey[l].device \in Devices /\ apiKey[l].device # d
      BY <1>1, <1>2, <3>2 DEF KeyRow
    <3> QED BY <1>6, <3>1, <3>2, <3>3
  <2> QED BY <2>1, <2>2
<1>8. OneAccount'
  BY <1>7 DEF OneAccount, Exists
<1> QED BY <1>1, <1>5, <1>6, <1>8

LEMMA RegisterStep ==
  ASSUME Inv, NEW a \in Accounts, NEW d \in Devices, NEW k \in ApiKeys, Register(a, d, k)
  PROVE  Inv'
<1>1. Provision(a, d, k) /\ UNCHANGED <<code, thread, paired>>
  BY DEF Register
<1>2. \A t \in Threads : thread[t].at = "call" => device'[thread[t].device] = thread[t].account
  <2> SUFFICES ASSUME NEW t \in Threads, thread[t].at = "call"
               PROVE  device'[thread[t].device] = thread[t].account
    OBVIOUS
  <2>1. thread[t] \in Call /\ device[thread[t].device] = thread[t].account
    BY ThreadCases DEF Inv, Owned
  <2>2. thread[t].device \in Devices /\ thread[t].account \in Accounts
    BY <2>1 DEF Call
  <2>3. Nobody \notin Accounts
    BY AccountsAssumption DEF AccountsAssumption
  <2> QED BY <1>1, <2>1, <2>2, <2>3, ProvisionStep
<1>3. Shape' /\ OneAccount'
  BY <1>1, ProvisionStep DEF Inv, Shape
<1>4. Locked' /\ Spent'
  BY <1>1 DEF Inv, Locked, Spent, Exists
<1> QED BY <1>1, <1>2, <1>3, <1>4 DEF Inv, Owned

LEMMA CodeStep ==
  ASSUME Inv, NEW c \in Codes, (\E d \in Devices : CreatePairingCode(c, d)) \/ CodeExpires(c)
  PROVE  Inv'
<1>1. UNCHANGED <<device, apiKey, thread, paired>>
  BY DEF CreatePairingCode, CodeExpires
<1>2. /\ code' \in [Codes -> CodeRow \cup {NoCode}]
      /\ \A b \in Codes : Exists(code, b) => Exists(code', b) /\ code'[b].used = code[b].used
  <2>1. ASSUME NEW d \in Devices, CreatePairingCode(c, d)
        PROVE  /\ code' \in [Codes -> CodeRow \cup {NoCode}]
               /\ \A b \in Codes : Exists(code, b) => code'[b] = code[b]
    <3>1. device[d] \in Accounts /\ ~Exists(code, c)
      BY <2>1 DEF CreatePairingCode, Inv, Shape
    <3>2. [account |-> device[d], used |-> FALSE, expired |-> FALSE] \in CodeRow
      BY <3>1 DEF CodeRow
    <3>3. code' = [code EXCEPT ![c] = [account |-> device[d], used |-> FALSE, expired |-> FALSE]]
      BY <2>1 DEF CreatePairingCode
    <3> QED BY <3>1, <3>2, <3>3 DEF Inv, Shape
  <2>2. CASE CodeExpires(c)
    <3>1. code[c] \in CodeRow
      BY <2>2, CodeCases DEF CodeExpires, Inv
    <3> DEFINE new == [code[c] EXCEPT !.expired = TRUE]
    <3>2. new \in CodeRow /\ new.account = code[c].account /\ new.used = code[c].used
      BY <3>1 DEF CodeRow
    <3>3. code' = [code EXCEPT ![c] = new]
      BY <2>2 DEF CodeExpires
    <3> HIDE DEF new
    <3> QED BY <3>2, <3>3 DEF Inv, Shape, Exists
  <2> QED BY <2>1, <2>2 DEF Exists
<1>3. Shape' /\ Owned'
  BY <1>1, <1>2 DEF Inv, Shape, Owned, OneAccount, Exists
<1>4. Locked'
  <2>1. \A t \in Threads : thread[t].at = "pair" => thread[t].code \in Codes
    BY ThreadCases DEF Inv, Pair
  <2> QED BY <1>1, <1>2, <2>1 DEF Inv, Locked, Exists
<1>5. Spent'
  BY <1>1, <1>2 DEF Inv, Spent, Exists
<1> QED BY <1>3, <1>4, <1>5 DEF Inv

LEMMA PairReadStep ==
  ASSUME Inv, NEW t \in Threads, NEW c \in Codes, PairRead(t, c)
  PROVE  Inv'
<1>1. UNCHANGED <<device, apiKey, code, paired>> /\ Exists(code, c) /\ ~code[c].used /\ LockFree(c)
  BY DEF PairRead
<1> DEFINE new == [at |-> "pair", code |-> c]
<1>2. new \in Pair /\ new.at = "pair" /\ new.code = c
  BY DEF Pair
<1>3. thread' = [thread EXCEPT ![t] = new]
  BY DEF PairRead
<1> HIDE DEF new
<1>4. /\ thread' \in [Threads -> {IdleThread} \cup Pair \cup Call] /\ thread'[t] = new
      /\ \A u \in Threads : u # t => thread'[u] = thread[u]
  BY <1>2, <1>3 DEF Inv, Shape
<1>5. Shape' /\ Spent'
  BY <1>1, <1>4 DEF Inv, Shape, Spent, Exists
<1>6. Locked'
  BY <1>1, <1>2, <1>4 DEF Inv, Locked, LockFree, Exists
<1>7. Owned'
  BY <1>1, <1>2, <1>4 DEF Inv, Owned, OneAccount, Exists
<1> QED BY <1>5, <1>6, <1>7 DEF Inv

LEMMA PairCommitStep ==
  ASSUME Inv, NEW t \in Threads, NEW d \in Devices, NEW k \in ApiKeys, PairCommit(t, d, k)
  PROVE  Inv'
<1> DEFINE c == thread[t].code
<1>1. /\ thread[t] \in Pair /\ thread[t].at = "pair"
      /\ Provision(code[c].account, d, k)
      /\ code' = [code EXCEPT ![c].used = TRUE]
      /\ paired' = [paired EXCEPT ![c] = @ + 1]
      /\ thread' = [thread EXCEPT ![t] = IdleThread]
  BY ThreadCases DEF PairCommit, Inv
<1>2. c \in Codes /\ Exists(code, c) /\ ~code[c].used
  BY <1>1 DEF Inv, Locked, Pair
<1>3. code[c] \in CodeRow
  BY <1>2, CodeCases DEF Inv
<1>4. code[c].account \in Accounts
  BY <1>3 DEF CodeRow
<1>5. /\ device' \in [Devices -> Accounts \cup {Nobody}]
      /\ apiKey' \in [ApiKeys -> KeyRow \cup {NoApiKey}]
      /\ OneAccount'
      /\ \A e \in Devices : device[e] # Nobody => device'[e] = device[e]
  BY <1>1, <1>4, ProvisionStep
<1> DEFINE new == [code[c] EXCEPT !.used = TRUE]
<1>6. new \in CodeRow /\ new.used /\ new.account = code[c].account
  BY <1>3 DEF CodeRow
<1>7. code' = [code EXCEPT ![c] = new]
  BY <1>1
<1> HIDE DEF new, c
<1>8. /\ code' \in [Codes -> CodeRow \cup {NoCode}] /\ code'[c] = new
      /\ \A b \in Codes : b # c => code'[b] = code[b]
  BY <1>2, <1>6, <1>7 DEF Inv, Shape
<1>9. /\ thread' \in [Threads -> {IdleThread} \cup Pair \cup Call] /\ thread'[t].at = "idle"
      /\ \A u \in Threads : u # t => thread'[u] = thread[u]
  BY <1>1 DEF Inv, Shape, IdleThread
<1>10. /\ paired' \in [Codes -> Nat] /\ paired'[c] = paired[c] + 1
       /\ \A b \in Codes : b # c => paired'[b] = paired[b]
  BY <1>1, <1>2 DEF Inv, Shape
<1>11. Shape'
  BY <1>5, <1>8, <1>9, <1>10 DEF Shape
<1>12. Locked'
  <2> SUFFICES ASSUME NEW u \in Threads, thread'[u].at = "pair"
               PROVE  /\ Exists(code', thread'[u].code) /\ ~code'[thread'[u].code].used
                      /\ \A v \in Threads :
                           thread'[v].at = "pair" /\ thread'[v].code = thread'[u].code => v = u
    BY DEF Locked, Exists
  <2>1. u # t /\ thread'[u] = thread[u]
    BY <1>9
  <2>2. thread[u].code # c /\ thread[u].code \in Codes
    BY <1>1, <2>1, ThreadCases DEF Inv, Locked, Pair, c
  <2>3. /\ Exists(code, thread[u].code) /\ ~code[thread[u].code].used
        /\ \A v \in Threads :
             thread[v].at = "pair" /\ thread[v].code = thread[u].code => v = u
    BY <2>1 DEF Inv, Locked
  <2> QED BY <1>8, <1>9, <2>1, <2>2, <2>3 DEF Exists
<1>13. Spent'
  <2>1. paired[c] = 0
    BY <1>2 DEF Inv, Shape, Spent
  <2>2. Exists(code', c)
    BY <1>2, <1>6, <1>8 DEF Exists
  <2>3. \A b \in Codes : b # c => (Exists(code', b) <=> Exists(code, b))
    BY <1>8 DEF Exists
  <2> QED BY <1>6, <1>8, <1>10, <2>1, <2>2, <2>3 DEF Inv, Spent, Exists
<1>14. \A u \in Threads : thread'[u].at = "call" => device'[thread'[u].device] = thread'[u].account
  <2> SUFFICES ASSUME NEW u \in Threads, thread'[u].at = "call"
               PROVE  device'[thread'[u].device] = thread'[u].account
    OBVIOUS
  <2>1. thread'[u] = thread[u] /\ thread[u].at = "call"
    BY <1>9
  <2>2. thread[u] \in Call /\ device[thread[u].device] = thread[u].account
    BY <2>1, ThreadCases DEF Inv, Owned
  <2>3. thread[u].device \in Devices /\ thread[u].account \in Accounts
    BY <2>2 DEF Call
  <2>4. Nobody \notin Accounts
    BY AccountsAssumption DEF AccountsAssumption
  <2> QED BY <1>5, <2>1, <2>2, <2>3, <2>4
<1> QED BY <1>5, <1>11, <1>12, <1>13, <1>14 DEF Inv, Owned

LEMMA ResolveStep ==
  ASSUME Inv, NEW t \in Threads, NEW k \in ApiKeys, Resolve(t, k)
  PROVE  Inv'
<1>1. UNCHANGED <<device, apiKey, code, paired>> /\ apiKey[k] \in KeyRow
  BY KeyCases DEF Resolve, Inv
<1> DEFINE new == [at |-> "call", account |-> apiKey[k].account,
                   device |-> apiKey[k].device, scopes |-> apiKey[k].scopes]
<1>2. new \in Call /\ new.at = "call" /\ device[new.device] = new.account
  BY <1>1 DEF Resolve, KeyRow, Call, Inv, Owned, OneAccount
<1>3. thread' = [thread EXCEPT ![t] = new]
  BY DEF Resolve
<1> HIDE DEF new
<1>4. /\ thread' \in [Threads -> {IdleThread} \cup Pair \cup Call] /\ thread'[t] = new
      /\ \A u \in Threads : u # t => thread'[u] = thread[u]
  BY <1>2, <1>3 DEF Inv, Shape
<1>5. Shape' /\ Spent'
  BY <1>1, <1>4 DEF Inv, Shape, Spent, Exists
<1>6. Locked' /\ Owned'
  BY <1>1, <1>2, <1>4 DEF Inv, Locked, Owned, OneAccount, Exists
<1> QED BY <1>5, <1>6 DEF Inv

LEMMA IdleStep ==
  ASSUME Inv, NEW t \in Threads, UNCHANGED <<device, code, paired>>,
         apiKey' \in [ApiKeys -> KeyRow \cup {NoApiKey}], OneAccount',
         thread' = thread \/ thread' = [thread EXCEPT ![t] = IdleThread]
  PROVE  Inv'
<1>1. /\ thread' \in [Threads -> {IdleThread} \cup Pair \cup Call]
      /\ \A u \in Threads : thread'[u] = thread[u] \/ thread'[u].at = "idle"
  BY DEF Inv, Shape, IdleThread
<1>2. Shape' /\ Spent'
  BY <1>1 DEF Inv, Shape, Spent, Exists
<1>3. Locked' /\ Owned'
  BY <1>1 DEF Inv, Locked, Owned, Exists
<1> QED BY <1>2, <1>3 DEF Inv

LEMMA MintStep ==
  ASSUME Inv, NEW t \in Threads, NEW d \in Devices, NEW k \in ApiKeys, NEW asked \in SUBSET Scopes,
         MintKey(t, d, k, asked)
  PROVE  Inv'
<1>1. thread[t] \in Call /\ device[thread[t].device] = thread[t].account
  BY ThreadCases DEF MintKey, Inv, Owned
<1>2. device[d] = thread[t].account /\ thread[t].account \in Accounts
  BY <1>1 DEF MintKey, OwnDevices, Call
<1>3. Granted(asked) \in (SUBSET Scopes) \ {{}}
  BY AccountsAssumption DEF AccountsAssumption, Granted
<1> DEFINE new == [account |-> thread[t].account, device |-> d,
                   scopes |-> Granted(asked), revoked |-> FALSE]
<1>4. new \in KeyRow /\ device[new.device] = new.account
  BY <1>2, <1>3 DEF KeyRow
<1>5. /\ UNCHANGED <<device, code, paired>> /\ thread' = [thread EXCEPT ![t] = IdleThread]
      /\ apiKey' = [apiKey EXCEPT ![k] = new]
  BY DEF MintKey
<1> HIDE DEF new
<1>6. apiKey' \in [ApiKeys -> KeyRow \cup {NoApiKey}]
  BY <1>4, <1>5 DEF Inv, Shape
<1>7. OneAccount'
  BY <1>4, <1>5 DEF Inv, Shape, Owned, OneAccount, Exists
<1> QED BY <1>5, <1>6, <1>7, IdleStep

(* Revoking changes no account and no device.                              *)
LEMMA RevokeStep ==
  ASSUME Inv, NEW S \in SUBSET ApiKeys, \A k \in S : Exists(apiKey, k),
         apiKey' = [k \in ApiKeys |-> IF k \in S THEN [apiKey[k] EXCEPT !.revoked = TRUE] ELSE apiKey[k]],
         device' = device
  PROVE  apiKey' \in [ApiKeys -> KeyRow \cup {NoApiKey}] /\ OneAccount'
<1>1. ASSUME NEW k \in S
      PROVE  /\ apiKey'[k] \in KeyRow /\ apiKey'[k].account = apiKey[k].account
             /\ apiKey'[k].device = apiKey[k].device
  <2>1. apiKey[k] \in KeyRow /\ apiKey'[k] = [apiKey[k] EXCEPT !.revoked = TRUE]
    BY KeyCases DEF Inv
  <2> QED BY <2>1 DEF KeyRow
<1>2. \A k \in ApiKeys \ S : apiKey'[k] = apiKey[k]
  OBVIOUS
<1>3. \A k \in ApiKeys : apiKey'[k] \in KeyRow \cup {NoApiKey}
  BY <1>1, <1>2 DEF Inv, Shape
<1>4. apiKey' = [k \in ApiKeys |-> apiKey'[k]]
  OBVIOUS
<1>5. apiKey' \in [ApiKeys -> KeyRow \cup {NoApiKey}]
  BY <1>3, <1>4
<1>6. OneAccount'
  BY <1>1, <1>2 DEF Inv, Owned, OneAccount, Exists
<1> QED BY <1>5, <1>6

LEMMA RevokeKeyStep ==
  ASSUME Inv, NEW t \in Threads, NEW k \in ApiKeys, RevokeKey(t, k)
  PROVE  Inv'
<1>1. /\ UNCHANGED <<device, code, paired>> /\ thread' = [thread EXCEPT ![t] = IdleThread]
      /\ \A l \in {k} : Exists(apiKey, l)
  BY DEF RevokeKey
<1>2. apiKey' = [l \in ApiKeys |->
        IF l \in {k} THEN [apiKey[l] EXCEPT !.revoked = TRUE] ELSE apiKey[l]]
  BY DEF RevokeKey, Inv, Shape
<1>3. {k} \in SUBSET ApiKeys
  OBVIOUS
<1> QED BY <1>1, <1>2, <1>3, RevokeStep, IdleStep

LEMMA InvStep == Inv /\ [Next]_vars => Inv'
<1> SUFFICES ASSUME Inv, [Next]_vars PROVE Inv'
  OBVIOUS
<1>1. CASE Pairing
  BY <1>1, RegisterStep, CodeStep, PairReadStep, PairCommitStep DEF Pairing
<1>2. ASSUME NEW t \in Threads, GiveUp(t) PROVE Inv'
  BY <1>2, IdleStep DEF GiveUp, Inv, Shape, Owned, OneAccount, Exists
<1>3. ASSUME NEW t \in Threads, Calling(t) PROVE Inv'
  BY <1>2, <1>3, ResolveStep, MintStep, RevokeKeyStep DEF Calling
<1>4. ASSUME NEW S \in SUBSET ApiKeys, RevokePicked(S) PROVE Inv'
  <2>1. /\ apiKey' \in [ApiKeys -> KeyRow \cup {NoApiKey}] /\ OneAccount'
        /\ UNCHANGED <<device, code, thread, paired>>
    BY <1>4, RevokeStep DEF RevokePicked
  <2> QED BY <2>1 DEF Inv, Shape, Locked, Spent, Owned, Exists
<1>5. CASE UNCHANGED vars
  BY <1>5 DEF vars, Inv, Shape, Locked, Spent, Owned, OneAccount, Exists
<1> QED BY <1>1, <1>3, <1>4, <1>5 DEF Next

LEMMA Invariance == Spec => []Inv
BY InvInit, InvStep, PTL DEF Spec

(* Every row has its shape, and every key has a scope.                     *)
THEOREM AccountsType == Spec => []AccountsTypeOK
<1>1. Inv => AccountsTypeOK
  BY ThreadCases DEF Inv, Shape, AccountsTypeOK, KeyRow, CodeRow
<1> QED BY <1>1, Invariance, PTL

(* A pairing code brings in one device at most, however many phones        *)
(* present it at once.                                                     *)
THEOREM CodeSpentOnce == Spec => []PairedOnce
<1>1. Inv => PairedOnce
  BY DEF Inv, Spent, PairedOnce
<1> QED BY <1>1, Invariance, PTL

(* A key and its device belong to one account.                             *)
THEOREM KeyAndDevice == Spec => []OneAccount
<1>1. Inv => OneAccount
  BY DEF Inv, Owned
<1> QED BY <1>1, Invariance, PTL
-----------------------------------------------------------------------------
(* Scopes.                                                                 *)

None(a, s) == Holders(a, s) = {} /\ Calls(a, s) = {}

(* A new key of another account, or without the scope, gives it to nobody. *)
LEMMA OtherKey ==
  ASSUME Inv, NEW a \in Accounts, NEW s \in Scopes, None(a, s), NEW k \in ApiKeys, NEW row,
         row.account # a \/ s \notin row.scopes,
         apiKey' = [apiKey EXCEPT ![k] = row]
  PROVE  Holders(a, s)' = {}
<1>1. \A l \in ApiKeys : apiKey'[l] = IF l = k THEN row ELSE apiKey[l]
  BY DEF Inv, Shape
<1>2. \A l \in ApiKeys : l \notin Holders(a, s)
  BY DEF None
<1>3. \A l \in ApiKeys : l \notin Holders(a, s)'
  BY <1>1, <1>2 DEF Holders
<1> QED BY <1>3 DEF Holders

LEMMA NoneStep ==
  ASSUME Inv, [Next]_vars, NEW a \in Accounts, NEW s \in Scopes,
         \E d \in Devices : device[d] = a, None(a, s)
  PROVE  \/ None(a, s)'
         \/ \E c \in Codes : code[c].account = a /\ paired'[c] > paired[c]
<1> DEFINE Goal == \/ None(a, s)'
                   \/ \E c \in Codes : code[c].account = a /\ paired'[c] > paired[c]
<1>1. CASE UNCHANGED <<apiKey, thread>>
  BY <1>1 DEF None, Holders, Calls
<1>2. ASSUME NEW b \in Accounts, NEW d \in Devices, NEW k \in ApiKeys, Register(b, d, k) PROVE Goal
  <2>1. b # a /\ UNCHANGED thread
    BY <1>2 DEF Register
  <2> DEFINE row == [account |-> b, device |-> d, scopes |-> FullScopes, revoked |-> FALSE]
  <2>2. row.account # a /\ apiKey' = [apiKey EXCEPT ![k] = row]
    BY <1>2, <2>1 DEF Register, Provision
  <2> HIDE DEF row
  <2>3. Holders(a, s)' = {}
    BY <2>2, OtherKey
  <2> QED BY <2>1, <2>3 DEF None, Calls
<1>3. ASSUME NEW t \in Threads, NEW d \in Devices, NEW k \in ApiKeys, PairCommit(t, d, k) PROVE Goal
  <2> DEFINE c == thread[t].code
             row == [account |-> code[c].account, device |-> d, scopes |-> FullScopes, revoked |-> FALSE]
  <2>1. c \in Codes
    BY <1>3, ThreadCases DEF PairCommit, Pair, Inv
  <2>2. /\ apiKey' = [apiKey EXCEPT ![k] = row] /\ row.account = code[c].account
        /\ thread' = [thread EXCEPT ![t] = IdleThread]
        /\ paired' = [paired EXCEPT ![c] = @ + 1]
    BY <1>3 DEF PairCommit, Provision
  <2> HIDE DEF c, row
  <2>3. paired'[c] > paired[c]
    BY <2>1, <2>2 DEF Inv, Shape
  <2>4. CASE code[c].account = a
    BY <2>1, <2>3, <2>4
  <2>5. CASE code[c].account # a
    <3>1. Holders(a, s)' = {}
      BY <2>2, <2>5, OtherKey
    <3>2. Calls(a, s)' = {}
      BY <2>2 DEF None, Calls, Inv, Shape, IdleThread
    <3> QED BY <3>1, <3>2 DEF None
  <2> QED BY <2>4, <2>5
<1>4. ASSUME NEW t \in Threads, NEW c \in Codes, PairRead(t, c) PROVE Goal
  <2>1. /\ UNCHANGED apiKey /\ thread'[t].at = "pair"
        /\ \A u \in Threads : u # t => thread'[u] = thread[u]
    BY <1>4 DEF PairRead, Inv, Shape
  <2> QED BY <2>1 DEF None, Holders, Calls
<1>5. ASSUME NEW t \in Threads, NEW k \in ApiKeys, Resolve(t, k) PROVE Goal
  <2>1. /\ UNCHANGED apiKey /\ thread'[t].account = apiKey[k].account
        /\ thread'[t].scopes = apiKey[k].scopes
        /\ \A u \in Threads : u # t => thread'[u] = thread[u]
    BY <1>5 DEF Resolve, Inv, Shape
  <2>2. apiKey[k].account # a \/ s \notin apiKey[k].scopes
    BY <1>5 DEF Resolve, Usable, None, Holders
  <2> QED BY <2>1, <2>2 DEF None, Holders, Calls
<1>6. ASSUME NEW t \in Threads, NEW d \in Devices, NEW k \in ApiKeys, NEW asked \in SUBSET Scopes,
             MintKey(t, d, k, asked)
      PROVE  Goal
  <2>1. thread[t].account # a \/ s \notin Granted(asked)
    BY <1>6 DEF MintKey, None, Calls
  <2> DEFINE row == [account |-> thread[t].account, device |-> d,
                     scopes |-> Granted(asked), revoked |-> FALSE]
  <2>2. /\ apiKey' = [apiKey EXCEPT ![k] = row] /\ (row.account # a \/ s \notin row.scopes)
        /\ thread' = [thread EXCEPT ![t] = IdleThread]
    BY <1>6, <2>1 DEF MintKey
  <2> HIDE DEF row
  <2>3. Holders(a, s)' = {}
    BY <2>2, OtherKey
  <2>4. Calls(a, s)' = {}
    BY <2>2 DEF None, Calls, Inv, Shape, IdleThread
  <2> QED BY <2>3, <2>4 DEF None
<1>7. ASSUME NEW S \in SUBSET ApiKeys, \A k \in S : Exists(apiKey, k),
             apiKey' = [k \in ApiKeys |->
               IF k \in S THEN [apiKey[k] EXCEPT !.revoked = TRUE] ELSE apiKey[k]]
      PROVE  Holders(a, s)' = {}
  <2>1. \A k \in S : apiKey'[k].revoked
    <3> SUFFICES ASSUME NEW k \in S PROVE apiKey'[k].revoked
      OBVIOUS
    <3>1. apiKey[k] \in KeyRow /\ apiKey'[k] = [apiKey[k] EXCEPT !.revoked = TRUE]
      BY <1>7, KeyCases DEF Inv
    <3> QED BY <3>1 DEF KeyRow
  <2>2. \A k \in ApiKeys \ S : apiKey'[k] = apiKey[k]
    BY <1>7
  <2>3. \A k \in ApiKeys : k \notin Holders(a, s)'
    BY <2>1, <2>2 DEF None, Holders
  <2> QED BY <2>3 DEF Holders
<1>8. ASSUME NEW t \in Threads, NEW k \in ApiKeys, RevokeKey(t, k) PROVE Goal
  <2>1. /\ thread' = [thread EXCEPT ![t] = IdleThread] /\ \A l \in {k} : Exists(apiKey, l)
        /\ apiKey' = [l \in ApiKeys |->
             IF l \in {k} THEN [apiKey[l] EXCEPT !.revoked = TRUE] ELSE apiKey[l]]
    BY <1>8 DEF RevokeKey, Inv, Shape
  <2>2. {k} \in SUBSET ApiKeys
    OBVIOUS
  <2>3. Holders(a, s)' = {}
    BY <1>7, <2>1, <2>2
  <2>4. Calls(a, s)' = {}
    BY <2>1 DEF None, Calls, Inv, Shape, IdleThread
  <2> QED BY <2>3, <2>4 DEF None
<1>9. ASSUME NEW S \in SUBSET ApiKeys, RevokePicked(S) PROVE Goal
  <2>1. Holders(a, s)' = {} /\ UNCHANGED thread
    BY <1>7, <1>9 DEF RevokePicked
  <2> QED BY <2>1 DEF None, Calls
<1>10. ASSUME NEW t \in Threads, GiveUp(t) PROVE Goal
  BY <1>10 DEF GiveUp, None, Holders, Calls, Inv, Shape, IdleThread
<1>11. CASE Pairing
  BY <1>1, <1>2, <1>3, <1>4, <1>11 DEF Pairing, CreatePairingCode, CodeExpires
<1>12. ASSUME NEW t \in Threads, Calling(t) PROVE Goal
  BY <1>5, <1>6, <1>8, <1>10, <1>12 DEF Calling
<1> QED BY <1>1, <1>9, <1>11, <1>12 DEF Next, vars

(* When the last key of an account with a scope is revoked and the calls   *)
(* begun with it are over, only a pairing brings the scope back.           *)
THEOREM RightsStayRevoked == Spec => RevokedForGood
<1>1. Inv /\ [Next]_vars =>
        [\A a \in Accounts, s \in Scopes :
           (\E d \in Devices : device[d] = a) /\ Holders(a, s) = {} /\ Calls(a, s) = {} =>
             \/ Holders(a, s)' = {} /\ Calls(a, s)' = {}
             \/ \E c \in Codes : code[c].account = a /\ paired'[c] > paired[c]]_vars
  BY NoneStep DEF None
<1> QED BY <1>1, Invariance, PTL DEF Spec, RevokedForGood
=============================================================================
