--------------------------- MODULE NodeClientManager ---------------------------
(***************************************************************************)
(* nodeClientManager of src/disperser/controller/node_client_manager.go:   *)
(* callers (goroutines of the controller) ask GetClient for the client of  *)
(* a node socket; clients live in a golang-lru/v2 Cache of cacheSize       *)
(* entries whose eviction callback closes them.  Cache.Get and Cache.Add  *)
(* each run under the cache's lock; Add calls the callback after it has   *)
(* unlocked, so closing an evicted client is a step of its own.  Adding a *)
(* key already present replaces the value without calling the callback.   *)
(* After GetClient returns the caller uses the client until it is done.   *)
(***************************************************************************)
EXTENDS Naturals, Sequences, SequencesExt, FiniteSets

CONSTANTS
    Callers,    \* goroutines calling GetClient
    Hosts,      \* host arguments
    Ports,      \* port arguments
    CacheSize,  \* cacheSize of NewNodeClientManager
    MaxClients  \* bound on the number of clients created in a behaviour

\* lru.NewWithEvict refuses a size <= 0 (NewNodeClientManager lines 35-38).
ASSUME CacheSize \in Nat \ {0} /\ MaxClients \in Nat

VARIABLES
    cache,      \* the LRU list, most recent first: <<[key, client]>>
    clients,    \* clients[i]: the <<host, port>> client i was created for
    closed,     \* the clients whose Close has been called
    pc,         \* per caller: "idle", "get", "create", "add", "evict", "use"
    arg,        \* per caller: the <<host, port>> of the current call
    held,       \* per caller: the client it has (0 for none)
    pending     \* per caller: the client its Add evicted, to be closed (0 for none)

vars == <<cache, clients, closed, pc, arg, held, pending>>

ClientIds == 1..Len(clients)
Keys(c) == {c[i].key : i \in 1..Len(c)}

\* Line 48: fmt.Sprintf("%s:%s", host, port).  Ports are decimal, so
\* distinct pairs give distinct strings; the pair stands for the string.
SocketKey_hostOnly(host, port) == host

SocketKey(host, port) == <<host, port>>

TypeOK ==
    /\ cache \in Seq([key : Hosts \X Ports, client : ClientIds])
    /\ clients \in Seq(Hosts \X Ports)
    /\ closed \subseteq ClientIds
    /\ pc \in [Callers -> {"idle", "get", "create", "add", "evict", "use"}]
    /\ arg \in [Callers -> Hosts \X Ports]
    /\ held \in [Callers -> {0} \cup ClientIds]
    /\ pending \in [Callers -> {0} \cup ClientIds]
    /\ \A c \in Callers : pc[c] \in {"add", "evict", "use"} => held[c] # 0

Init ==
    /\ cache = <<>>
    /\ clients = <<>>
    /\ closed = {}
    /\ pc = [c \in Callers |-> "idle"]
    /\ arg = [c \in Callers |-> CHOOSE s \in Hosts \X Ports : TRUE]
    /\ held = [c \in Callers |-> 0]
    /\ pending = [c \in Callers |-> 0]

\* The index of key k in the LRU list.
IndexOf(k) == CHOOSE i \in 1..Len(cache) : cache[i].key = k

\* simplelru: move entry i to the front, with value v.
ToFront(i, v) ==
    <<[key |-> cache[i].key, client |-> v]>> \o RemoveAt(cache, i)

\* A caller calls GetClient(host, port).
Call(c, h, p) ==
    /\ pc[c] = "idle"
    /\ pc' = [pc EXCEPT ![c] = "get"]
    /\ arg' = [arg EXCEPT ![c] = <<h, p>>]
    /\ held' = [held EXCEPT ![c] = 0]
    /\ UNCHANGED <<cache, clients, closed, pending>>

\* Line 49: Cache.Get; a hit moves the entry to the front and is returned.
Get(c) ==
    LET k == SocketKey(arg[c][1], arg[c][2]) IN
    /\ pc[c] = "get"
    /\ IF k \in Keys(cache)
         THEN /\ cache' = ToFront(IndexOf(k), cache[IndexOf(k)].client)
              /\ held' = [held EXCEPT ![c] = cache[IndexOf(k)].client]
              /\ pc' = [pc EXCEPT ![c] = "use"]
         ELSE /\ pc' = [pc EXCEPT ![c] = "create"]
              /\ UNCHANGED <<cache, held>>
    /\ UNCHANGED <<clients, closed, arg, pending>>

(* Lines 51-60: clients.NewNodeClient either fails, and GetClient returns *)
(* the error, or yields a fresh client for the socket.                    *)
CreateClient_noReturn(c) ==
    /\ pc[c] = "create"
    /\ \/ /\ pc' = [pc EXCEPT ![c] = "use"]
          /\ UNCHANGED <<clients, held>>
       \/ /\ Len(clients) < MaxClients
          /\ clients' = Append(clients, arg[c])
          /\ held' = [held EXCEPT ![c] = Len(clients) + 1]
          /\ pc' = [pc EXCEPT ![c] = "add"]
    /\ UNCHANGED <<cache, closed, arg, pending>>

CreateClient(c) ==
    /\ pc[c] = "create"
    /\ \/ /\ pc' = [pc EXCEPT ![c] = "idle"]
          /\ UNCHANGED <<clients, held>>
       \/ /\ Len(clients) < MaxClients
          /\ clients' = Append(clients, arg[c])
          /\ held' = [held EXCEPT ![c] = Len(clients) + 1]
          /\ pc' = [pc EXCEPT ![c] = "add"]
    /\ UNCHANGED <<cache, closed, arg, pending>>

(* Line 62: Cache.Add under the lock.  A present key gets the new value  *)
(* and moves to the front, the old value dropped silently; a new key goes *)
(* in front and, past CacheSize, the oldest entry is removed and kept for *)
(* the callback.                                                          *)
LruAdd(k, v) ==
    IF k \in Keys(cache)
      THEN [list |-> ToFront(IndexOf(k), v), evicted |-> 0]
      ELSE LET l == <<[key |-> k, client |-> v]>> \o cache IN
           IF Len(l) > CacheSize
             THEN [list |-> SubSeq(l, 1, CacheSize), evicted |-> Last(l).client]
             ELSE [list |-> l, evicted |-> 0]

Add(c) ==
    LET r == LruAdd(SocketKey(arg[c][1], arg[c][2]), held[c]) IN
    /\ pc[c] = "add"
    /\ cache' = r.list
    /\ pending' = [pending EXCEPT ![c] = r.evicted]
    /\ pc' = [pc EXCEPT ![c] = IF r.evicted = 0 THEN "use" ELSE "evict"]
    /\ UNCHANGED <<clients, closed, arg, held>>

\* Lines 29-34: closeClient, run by Add after the cache is unlocked.
CloseEvicted(c) ==
    /\ pc[c] = "evict"
    /\ closed' = closed \cup {pending[c]}
    /\ pending' = [pending EXCEPT ![c] = 0]
    /\ pc' = [pc EXCEPT ![c] = "use"]
    /\ UNCHANGED <<cache, clients, arg, held>>

\* GetClient has returned (line 65); the caller is done with the client.
Done(c) ==
    /\ pc[c] = "use"
    /\ pc' = [pc EXCEPT ![c] = "idle"]
    /\ UNCHANGED <<cache, clients, closed, arg, held, pending>>

Next ==
    \E c \in Callers :
        \/ \E h \in Hosts, p \in Ports : Call(c, h, p)
        \/ Get(c) \/ CreateClient(c) \/ Add(c) \/ CloseEvicted(c) \/ Done(c)

Spec == Init /\ [][Next]_vars

-----------------------------------------------------------------------------
(***************************************************************************)
(* Properties.                                                            *)
(***************************************************************************)

\* The client GetClient hands back, from the cache or freshly made, is one
\* created for the host and port asked for, and every cache entry holds a
\* client of its own socket: the key of line 48 separates sockets, and
\* Get/Add under the cache lock keep entries and keys together.
ClientMatchesSocket ==
    /\ \A c \in Callers : pc[c] = "use" => clients[held[c]] = arg[c]
    /\ \A i \in 1..Len(cache) : clients[cache[i].client] = cache[i].key

\* A client GetClient returned is not closed while its caller still uses
\* it.  The eviction callback of lines 29-34 closes whatever Add pushes
\* out, including a client another caller has just received.
NoUseAfterClose ==
    \A c \in Callers : pc[c] = "use" => held[c] \notin closed

\* Every client created is in the cache, with a caller, waiting for the
\* eviction callback, or closed: the callback of lines 29-34 is the only
\* place clients are closed.  Two callers that miss on the same socket both
\* create a client, and the second Add replaces the first without a
\* callback.
NoLeakedClient ==
    \A i \in ClientIds :
        \/ i \in closed
        \/ \E k \in 1..Len(cache) : cache[k].client = i
        \/ \E c \in Callers : (pc[c] \in {"add", "evict", "use"} /\ held[c] = i)
                              \/ pending[c] = i

================================================================================
