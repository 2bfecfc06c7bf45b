------------------------------ MODULE Accounts ------------------------------
(***************************************************************************)
(* Who may use the system: accounts, their devices, the pairing codes that *)
(* add a device, and the API keys, which mint and revoke one another.      *)
(* Registration and pairing are transactions; a call with an API key reads *)
(* the key first and acts on what it read, with no transaction.  Tokens    *)
(* and codes are unguessable: whoever presents one was given it.           *)
(***************************************************************************)
EXTENDS Naturals

CONSTANTS
  Accounts, Devices, ApiKeys, Codes,     \* primary keys
  Threads,                               \* web threads
  Scopes, FullScopes, Nobody

ASSUME AccountsAssumption ==
  /\ "send" \in FullScopes /\ FullScopes \subseteq Scopes
  /\ Nobody \notin Accounts

VARIABLES
  device,      \* the account of each device, Nobody before it is created
  apiKey,      \* account, device, scopes, and whether it is revoked
  code,        \* pairing codes: account, state, whether expires_at is past
  thread,      \* what each thread has read and is about to do
  paired       \* how many devices each code has brought in

vars == <<device, apiKey, code, thread, paired>>

NoApiKey == [account |-> Nobody]
NoCode == [account |-> Nobody]
IdleThread == [at |-> "idle"]

Exists(table, i) == table[i].account # Nobody

(* _provision: a device and the first key for it.                          *)
Provision(a, d, k) ==
  /\ device[d] = Nobody /\ ~Exists(apiKey, k)
  /\ device' = [device EXCEPT ![d] = a]
  /\ apiKey' = [apiKey EXCEPT ![k] =
                 [account |-> a, device |-> d, scopes |-> FullScopes, revoked |-> FALSE]]

(* register: a new account, in one transaction.                            *)
Register(a, d, k) ==
  /\ \A e \in Devices : device[e] # a
  /\ Provision(a, d, k)
  /\ UNCHANGED <<code, thread, paired>>

CreatePairingCode(c, d) ==
  /\ device[d] # Nobody /\ ~Exists(code, c)
  /\ code' = [code EXCEPT ![c] = [account |-> device[d], used |-> FALSE, expired |-> FALSE]]
  /\ UNCHANGED <<device, apiKey, thread, paired>>

CodeExpires(c) ==
  /\ Exists(code, c)
  /\ code' = [code EXCEPT ![c].expired = TRUE]
  /\ UNCHANGED <<device, apiKey, thread, paired>>

LockIgnored(c) == TRUE     \* mutant: the code is read without its lock
LockFree(c) == \A t \in Threads : thread[t].at = "pair" => thread[t].code # c

(* pair: SELECT ... FOR UPDATE waits for the row and then filters it.      *)
PairRead(t, c) ==
  /\ thread[t].at = "idle"
  /\ Exists(code, c) /\ LockFree(c)
  /\ ~code[c].used /\ ~code[c].expired
  /\ thread' = [thread EXCEPT ![t] = [at |-> "pair", code |-> c]]
  /\ UNCHANGED <<device, apiKey, code, paired>>

PairCommit(t, d, k) ==
  LET c == thread[t].code IN
  /\ thread[t].at = "pair"
  /\ Provision(code[c].account, d, k)
  /\ code' = [code EXCEPT ![c].used = TRUE]
  /\ paired' = [paired EXCEPT ![c] = @ + 1]
  /\ thread' = [thread EXCEPT ![t] = IdleThread]
-----------------------------------------------------------------------------
(* Calls with an API key.                                                  *)

Usable(k) == ~apiKey[k].revoked

(* resolve_api_key(request, scope="send"): the thread keeps the row.       *)
Resolve(t, k) ==
  /\ thread[t].at = "idle"
  /\ Exists(apiKey, k) /\ Usable(k)
  /\ "send" \in apiKey[k].scopes
  /\ thread' = [thread EXCEPT ![t] = [at |-> "call", account |-> apiKey[k].account,
                                      device |-> apiKey[k].device, scopes |-> apiKey[k].scopes]]
  /\ UNCHANGED <<device, apiKey, code, paired>>

GrantedRaw(asked) == asked           \* mutant: no default for an empty list
Granted(asked) == IF asked = {} THEN FullScopes ELSE asked

AnyDevice(t) == {d \in Devices : device[d] # Nobody}   \* mutant: of any account
OwnDevices(t) == {d \in Devices : device[d] = thread[t].account}

MintUnchecked(t, d, k, asked) ==    \* mutant: scopes beyond the caller's own are granted
  /\ thread[t].at = "call"
  /\ d \in OwnDevices(t) \cup {thread[t].device}
  /\ ~Exists(apiKey, k)
  /\ apiKey' = [apiKey EXCEPT ![k] = [account |-> thread[t].account, device |-> d,
                                      scopes |-> Granted(asked), revoked |-> FALSE]]
  /\ thread' = [thread EXCEPT ![t] = IdleThread]
  /\ UNCHANGED <<device, code, paired>>

MintKey(t, d, k, asked) ==
  /\ thread[t].at = "call"
  /\ d \in OwnDevices(t) \cup {thread[t].device}
  /\ Granted(asked) \subseteq thread[t].scopes
  /\ ~Exists(apiKey, k)
  /\ apiKey' = [apiKey EXCEPT ![k] = [account |-> thread[t].account, device |-> d,
                                      scopes |-> Granted(asked), revoked |-> FALSE]]
  /\ thread' = [thread EXCEPT ![t] = IdleThread]
  /\ UNCHANGED <<device, code, paired>>

RevokeKey(t, k) ==
  /\ thread[t].at = "call"
  /\ Exists(apiKey, k) /\ apiKey[k].account = thread[t].account
  /\ apiKey' = [apiKey EXCEPT ![k].revoked = TRUE]
  /\ thread' = [thread EXCEPT ![t] = IdleThread]
  /\ UNCHANGED <<device, code, paired>>

(* An administrator revokes the keys picked from a list, of any accounts.  *)
RevokePicked(S) ==
  /\ S # {} /\ \A k \in S : Exists(apiKey, k)
  /\ apiKey' = [k \in ApiKeys |-> IF k \in S THEN [apiKey[k] EXCEPT !.revoked = TRUE] ELSE apiKey[k]]
  /\ UNCHANGED <<device, code, thread, paired>>

(* The call is refused, or the process dies: a transaction is rolled back. *)
GiveUp(t) ==
  /\ thread[t].at # "idle"
  /\ thread' = [thread EXCEPT ![t] = IdleThread]
  /\ UNCHANGED <<device, apiKey, code, paired>>
-----------------------------------------------------------------------------
Init ==
  /\ device = [d \in Devices |-> Nobody]
  /\ apiKey = [k \in ApiKeys |-> NoApiKey]
  /\ code = [c \in Codes |-> NoCode]
  /\ thread = [t \in Threads |-> IdleThread]
  /\ paired = [c \in Codes |-> 0]

Pairing ==
  \/ \E a \in Accounts, d \in Devices, k \in ApiKeys : Register(a, d, k)
  \/ \E c \in Codes, d \in Devices : CreatePairingCode(c, d)
  \/ \E c \in Codes : CodeExpires(c)
  \/ \E t \in Threads, c \in Codes : PairRead(t, c)
  \/ \E t \in Threads, d \in Devices, k \in ApiKeys : PairCommit(t, d, k)

Calling(t) ==
  \/ \E k \in ApiKeys : Resolve(t, k) \/ RevokeKey(t, k)
  \/ \E d \in Devices, k \in ApiKeys, asked \in SUBSET Scopes : MintKey(t, d, k, asked)
  \/ GiveUp(t)

Next ==
  \/ Pairing
  \/ \E t \in Threads : Calling(t)
  \/ \E S \in SUBSET ApiKeys : RevokePicked(S)

Spec == Init /\ [][Next]_vars
-----------------------------------------------------------------------------
(* Every row has its shape, and every key may do something: the empty list *)
(* of scopes stands for the default.                                       *)
AccountsTypeOK ==
  /\ device \in [Devices -> Accounts \cup {Nobody}]
  /\ \A k \in ApiKeys : apiKey[k] # NoApiKey =>
       apiKey[k] \in [account : Accounts, device : Devices,
                      scopes : (SUBSET Scopes) \ {{}}, revoked : BOOLEAN]
  /\ \A c \in Codes : code[c] # NoCode =>
       code[c] \in [account : Accounts, used : BOOLEAN, expired : BOOLEAN]
  /\ \A t \in Threads : thread[t].at \in {"idle", "pair", "call"}
  /\ paired \in [Codes -> Nat]

(* However many phones present one pairing code at once, it brings in one  *)
(* device at most (test_registration_api: "reuse rejected").               *)
PairedOnce == \A c \in Codes : paired[c] <= 1

(* A key and the device it sends through belong to one account, whichever  *)
(* chain of registrations, pairings and mintings led to it.                *)
OneAccount == \A k \in ApiKeys : Exists(apiKey, k) => device[apiKey[k].device] = apiKey[k].account

(* Who has a scope in an account: the keys that are not revoked, and the   *)
(* calls under way with what they read of a key.                           *)
Holders(a, s) ==
  {k \in ApiKeys : apiKey[k].account = a /\ ~apiKey[k].revoked /\ s \in apiKey[k].scopes}

Calls(a, s) ==
  {t \in Threads : thread[t].at = "call" /\ thread[t].account = a /\ s \in thread[t].scopes}

(* Scopes never grow along a chain of keys, and what is revoked stays so:  *)
(* when the last key of an account with a scope is revoked and the calls   *)
(* already begun with it are over, no key of any other scopes brings it    *)
(* back ("Cannot grant scopes beyond your own").  Only a pairing does,     *)
(* which gives a new phone its first key.                                  *)
RevokedForGood ==
  [][\A a \in Accounts, s \in Scopes :
       (\E d \in Devices : device[d] = a) /\ Holders(a, s) = {} /\ Calls(a, s) = {} =>
         \/ Holders(a, s)' = {} /\ Calls(a, s)' = {}
         \/ \E c \in Codes : code[c].account = a /\ paired'[c] > paired[c]]_vars
=============================================================================
