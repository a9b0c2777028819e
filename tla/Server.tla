-------------------------------- MODULE Server --------------------------------
(*****************************************************************************)
(* The HTTP server (server.go) in front of Engine, and its clients, among    *)
(* them the TypeScript SDK (index.ts): posted transactions, their status     *)
(* codes, reads of the state, requests that take effect after their client   *)
(* has given up, retries, and restarts of the process.                       *)
(*                                                                           *)
(* Abstractions.                                                             *)
(*  - Handlers run concurrently and meet at the engine's mutex: what a       *)
(*    handler does is the one step its call of the engine takes.             *)
(*  - An answer is its code, with the text of a 400 where it matters:        *)
(*    "unchanged" for ErrNoStateChange, "error" for every other one.         *)
(*  - A request that lacks the token, is no POST or has no readable body is  *)
(*    the list Garbled.                                                      *)
(*****************************************************************************)
EXTENDS Engine

CONSTANTS
  Client,       \* the clients
  Sdk,          \* those that use AgidbClient.commit
  Garbled,      \* a request auth or tx refuses without calling the engine
  MaxRequests,  \* bound: requests of all clients together
  MaxTries      \* bound: attempts at one request

ASSUME ClientsAssumption == Sdk \subseteq Client
ASSUME TriesAssumption == MaxRequests \in Nat /\ MaxTries \in Nat

VARIABLES
  asks,     \* asks[c]: what client c wants, and whether it waits for an answer
  late,     \* requests under way whose client does not wait any more
  answers,  \* history: every answer to a list, with the height it was given at
  author    \* history: author[h]: the client and the number of block h's request
            \* (h and 0 for a block of an earlier release)

netVars == <<asks, late, answers, author>>
serverVars == <<vars, netVars>>

Nothing == [phase |-> "idle", no |-> 0, try |-> 0, list |-> <<>>]
-------------------------------------------------------------------------------
(* Clients *)

(* What the server decodes from the body. The SDK sends the operations in a  *)
(* field "operations"; the server reads the field "ops", and finds none.     *)
Decoded(c, list) == IF c \in Sdk /\ list # Garbled THEN <<>> ELSE list

Post(c, list) ==
  /\ asks[c].phase # "waiting"
  /\ MapThenSumSet(LAMBDA d : asks[d].no, Client) < MaxRequests
  /\ asks' = [asks EXCEPT ![c] = [phase |-> "waiting", no |-> @.no + 1, try |-> 1,
                                   list |-> Decoded(c, list)]]
  /\ UNCHANGED <<vars, late, answers, author>>

(* A timeout or a broken connection: the request may still be carried out *)
GiveUp(c) ==
  /\ asks[c].phase = "waiting"
  /\ asks' = [asks EXCEPT ![c].phase = "unsure"]
  /\ late' = late \cup {[client |-> c, ask |-> asks[c]]}
  /\ UNCHANGED <<vars, answers, author>>

Retry(c) ==
  /\ asks[c].phase = "unsure" /\ asks[c].try < MaxTries
  /\ asks' = [asks EXCEPT ![c].phase = "waiting", ![c].try = @ + 1]
  /\ UNCHANGED <<vars, late, answers, author>>

(* The request never arrives *)
Lose(r) ==
  /\ r \in late
  /\ late' = late \ {r}
  /\ UNCHANGED <<vars, asks, answers, author>>
-------------------------------------------------------------------------------
(* The handler of /v1/tx *)

UnderWay ==
  {[client |-> c, ask |-> asks[c]] : c \in {d \in Client : asks[d].phase = "waiting"}} \cup late

(* The request is answered; only a client that still waits hears of it *)
Leaves(r) ==
  /\ asks' = IF asks[r.client] = r.ask
             THEN [asks EXCEPT ![r.client] = [Nothing EXCEPT !.no = r.ask.no]]
             ELSE asks
  /\ late' = late \ {r}

Arrives(r) == r \in UnderWay /\ r.ask.list # Garbled

Promises(code, r, height) ==
  answers' = answers \cup {[code |-> code, list |-> r.ask.list, height |-> height]}

(* 201 with the block; or 400, because the log could not be removed after    *)
(* the block was committed                                                   *)
TxCommits(r) ==
  /\ Arrives(r)
  /\ Commit(r.ask.list)
  /\ Promises("201", r, Len(blocks) + 1) \/ UNCHANGED answers
  /\ author' = Append(author, [client |-> r.client, no |-> r.ask.no])
  /\ Leaves(r)

(* 400 with the text of ErrNoStateChange, for a transaction without          *)
(* operations too                                                            *)
TxUnchanged(r) ==
  /\ Arrives(r)
  /\ CommitRefused(r.ask.list)
  /\ r.ask.list = <<>> \/ WellFormed(r.ask.list)
  /\ Promises("unchanged", r, Len(blocks))
  /\ Leaves(r)
  /\ UNCHANGED author

(* 401, 405, and 400 for a body that is too long or does not parse, for an   *)
(* empty key, or for an I/O error before anything was committed. The log     *)
(* such an error may leave, and the block the next start makes of it, are    *)
(* the subject of Storage and Execution.                                     *)
TxRefused(r) ==
  /\ up /\ r \in UnderWay
  /\ Leaves(r)
  /\ UNCHANGED <<vars, answers, author>>
-------------------------------------------------------------------------------
(* The handlers that read *)

(* Mutant: the height is ignored *)
StateHandlerLatest(k, h) == Get(k)

(* /v1/state: no height, or height 0, asks for the latest value *)
StateHandler(k, h) == IF h > 0 THEN GetAt(k, h) ELSE Get(k)

(* /v1/block *)
BlockHandler(h) == IF h = 0 \/ h > Len(blocks) THEN Absent ELSE blocks[h]

(* Mutant: the aggregate root covers "contract/" only, as in schema 3 *)
StatusOldRoot ==
  [height |-> Len(blocks), latestHash |-> LastHash(blocks), stateRoot |-> StateRoot(state),
   contractRoot |-> PrefixRoot(state, Prefix["contract/"]),
   accountRoot |-> PrefixRoot(state, Prefix["account/"]),
   codeRoot |-> PrefixRoot(state, Prefix["contract/code/"]),
   storageRoot |-> PrefixRoot(state, Prefix["contract-storage/"]),
   logRoot |-> PrefixRoot(state, Prefix["log/"]), zkRoot |-> PrefixRoot(state, Prefix["zk/"]),
   receiptRoot |-> PrefixRoot(state, Prefix["receipt/"]),
   keys |-> Cardinality({k \in Key : state[k] # Absent}),
   transactions |-> txCount, operations |-> opCount, verified |-> TRUE]

(* /v1/verify *)
VerifyHandler == IF Accepts(blocks) THEN "200" ELSE "500"

(* /v1/status: the roots are computed from the state map at each call;       *)
(* "verified" is a constant                                                  *)
Status ==
  [height |-> Len(blocks), latestHash |-> LastHash(blocks), stateRoot |-> StateRoot(state),
   contractRoot |-> ContractAggregateRoot(state),
   accountRoot |-> PrefixRoot(state, Prefix["account/"]),
   codeRoot |-> PrefixRoot(state, Prefix["contract/code/"]),
   storageRoot |-> PrefixRoot(state, Prefix["contract-storage/"]),
   logRoot |-> PrefixRoot(state, Prefix["log/"]), zkRoot |-> PrefixRoot(state, Prefix["zk/"]),
   receiptRoot |-> PrefixRoot(state, Prefix["receipt/"]),
   keys |-> Cardinality({k \in Key : state[k] # Absent}),
   transactions |-> txCount, operations |-> opCount, verified |-> TRUE]
-------------------------------------------------------------------------------
(* agidb serve *)

ServerInit ==
  /\ Init
  /\ asks = [c \in Client |-> Nothing] /\ late = {} /\ answers = {}
  /\ author = [h \in DOMAIN stored |-> [client |-> h, no |-> 0]]

Starts == Open /\ UNCHANGED netVars

(* The process ends, and every request with it *)
Stops ==
  /\ Close
  /\ asks' = [c \in Client |->
                IF asks[c].phase = "waiting" THEN [asks[c] EXCEPT !.phase = "unsure"] ELSE asks[c]]
  /\ late' = {}
  /\ UNCHANGED <<answers, author>>

ServerNext ==
  \/ Starts \/ Stops
  \/ \E c \in Client :
       \/ \E list \in Batch \cup {Garbled} : Post(c, list)
       \/ GiveUp(c) \/ Retry(c)
  \/ \E r \in UnderWay : Lose(r) \/ TxCommits(r) \/ TxUnchanged(r) \/ TxRefused(r)

ServerSpec == ServerInit /\ [][ServerNext]_serverVars
-------------------------------------------------------------------------------
(* Properties *)

(* An answer stands: what a client was told it had written (201), or what it *)
(* was told was there already (400, no state change), is what /v1/state      *)
(* returns for the height of that answer, at any later time, after other     *)
(* writes and after restarts.                                                *)
AnswerStands ==
  up => \A a \in answers : a.height > 0 =>
          \A k \in {a.list[i].key : i \in DOMAIN a.list} :
            StateHandler(k, a.height) = Effect(a.list[Max(On(a.list, k))])

WritesKeyTwice(ops) == \E i, j \in DOMAIN ops : i # j /\ ops[i].key = ops[j].key

(* A request that is carried out more than once, after a timeout and a       *)
(* retry, makes a second block only if another request has changed one of    *)
(* its keys since the first one (or if it writes a key twice itself).        *)
DuplicateSuppressed ==
  \A g, h \in DOMAIN blocks :
    g < h /\ author[g] = author[h] /\ ~WritesKeyTwice(blocks[h].ops) =>
      \E m \in g + 1..h - 1 : \E i \in DOMAIN blocks[h].ops :
        On(blocks[m].ops, blocks[h].ops[i].key) # {}

(* What /v1/status reports belongs together: the roots it computes from the  *)
(* state are the roots in the block it names as the latest one (of a block   *)
(* of an earlier schema, the state root), and verify confirms the "verified" *)
(* it reports without having verified anything.                              *)
StatusNamesBlock ==
  up /\ Status.height > 0 =>
    LET b == BlockHandler(Status.height)
    IN  /\ Status.latestHash = b.hash
        /\ Status.verified => VerifyHandler = "200"
        /\ Status.stateRoot = b.stateRoot
        /\ b.schema = 4 =>
             \A root \in {"contractRoot", "accountRoot", "codeRoot", "storageRoot",
                          "logRoot", "zkRoot", "receiptRoot"} : Status[root] = b[root]
===============================================================================
