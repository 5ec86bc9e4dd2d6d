------------------------------ MODULE ProbeYAML ------------------------------
(***************************************************************************)
(* What a probe watches: the configuration that a synchronization renders  *)
(* from the metadata and credentials that admin returns, less the ports    *)
(* that the operator has excluded.  A TendbHA proxy is watched through its *)
(* admin ports, with credentials of their own, and through its data ports, *)
(* which is why a rendering has two blocks for it.  Which ports a block    *)
(* holds is kept, how they are sorted and written is not.                  *)
(***************************************************************************)
EXTENDS Naturals, FiniteSets

CONSTANTS
  Item,     \* metadata: records of the key and two ports, 0 for no port
  Account,  \* the blocks admin has credentials for, in one answer or another
  MaxItems  \* bound: items in one answer

VARIABLES
  answer,    \* what admin has returned and is not rendered yet, or Waiting
  clear,     \* clearPorts in the configuration file
  harvester  \* the blocks of endpoints in the configuration file

vars == <<answer, clear, harvester>>

Waiting == [items |-> {}, accounts |-> {}]
NoBlocks == [mysql |-> {}, mysqlProxyAdmin |-> {}, redis |-> {}]

Key == {m.key : m \in Item}
Port == UNION {{m.port, m.adminPort} : m \in Item} \ {0}
Endpoint == [key : Key, ports : SUBSET Port, adminPorts : SUBSET Port]

TypeOK ==
  /\ answer.items \subseteq Item /\ clear \subseteq Port
  /\ \A b \in DOMAIN harvester : harvester[b] \subseteq Endpoint

Init == answer = Waiting /\ clear = {} /\ harvester = NoBlocks

-----------------------------------------------------------------------------
(* buildEndpointsFromMetadata *)

isMysqlProxyEndpoint(k) == k.family = "mysql" /\ k.proxy

(* groupMetadataByEndpointKey: the ports of an endpoint, 0 is none.        *)
Ports(M, k) == {m.port : m \in {n \in M : n.key = k}} \ {0}
AdminPorts(M, k) == {m.adminPort : m \in {n \in M : n.key = k}} \ {0}

(* A proxy without admin ports is passed over.                             *)
ProxyKeys(M) ==
  {k \in Key : isMysqlProxyEndpoint(k) /\ AdminPorts(M, k) # {}}
PlainKeys(M, family) ==
  {k \in Key : /\ k.family = family /\ ~ isMysqlProxyEndpoint(k)
               /\ Ports(M, k) \cup AdminPorts(M, k) # {}}

Plain(M, family) ==
  {[key |-> k, ports |-> Ports(M, k), adminPorts |-> AdminPorts(M, k)] :
     k \in PlainKeys(M, family)}

MysqlEndpoints(M) ==
  Plain(M, "mysql") \cup
    {[key |-> k, ports |-> Ports(M, k), adminPorts |-> {}] :
       k \in {x \in ProxyKeys(M) : Ports(M, x) # {}}}
ProxyAdminEndpoints(M) ==
  {[key |-> k, ports |-> {}, adminPorts |-> AdminPorts(M, k)] :
     k \in ProxyKeys(M)}
RedisEndpoints(M) == Plain(M, "redis")

(* GenProbeYAML, before its options.  An older admin has no account for    *)
(* admin ports: those of the proxies go to the other block.                *)
Blocks(M, accounts) ==
  LET admins == ProxyAdminEndpoints(M)
      fallback == "proxyAdmin" \notin accounts IN
  [mysql |-> IF "mysql" \notin accounts THEN {}
             ELSE MysqlEndpoints(M) \cup (IF fallback THEN admins ELSE {}),
   mysqlProxyAdmin |-> IF fallback THEN {} ELSE admins,
   redis |-> IF "redis" \notin accounts THEN {} ELSE RedisEndpoints(M)]

-----------------------------------------------------------------------------
(* dropClearedPorts *)

(* filterEndpoints *)
Filter(E, drop) ==
  {e \in {[f EXCEPT !.ports = @ \ drop, !.adminPorts = @ \ drop] : f \in E} :
     e.ports \cup e.adminPorts # {}}

(* The proxies that an admin port is watched of.  A mistake: to look for   *)
(* them in their own block only.                                           *)
OwnersIn(E) == {e.key : e \in {f \in E : f.adminPorts # {}
                                         /\ isMysqlProxyEndpoint(f.key)}}
ProxyAdminBlockOwners(h) == OwnersIn(h.mysqlProxyAdmin)

mysqlProxyAdminOwners(h) == OwnersIn(h.mysqlProxyAdmin \cup h.mysql)

(* A proxy that has lost its admin ports goes with its data ports.         *)
dropOrphanMysqlProxyData(h, before) ==
  [h EXCEPT !.mysql = {e \in @ :
     isMysqlProxyEndpoint(e.key) /\ e.key \in before =>
       e.key \in mysqlProxyAdminOwners(h)}]

dropClearedPorts(h, drop) ==
  dropOrphanMysqlProxyData([b \in DOMAIN h |-> Filter(h[b], drop)],
                           mysqlProxyAdminOwners(h))

-----------------------------------------------------------------------------

(* Admin is asked: instances came and went, and it may be an older one.    *)
Fetch(M, accounts) ==
  /\ answer = Waiting
  /\ answer' = [items |-> M, accounts |-> accounts]
  /\ UNCHANGED <<clear, harvester>>

(* The operator edits clearPorts in the file, which is rendered anew by    *)
(* the next synchronization only.                                          *)
EditClearPorts(C) ==
  /\ clear' = C
  /\ UNCHANGED <<answer, harvester>>

(* GenProbeYAML with the options that carry the fields of the file over,   *)
(* WithClearPorts the last of them.                                        *)
Render ==
  /\ answer # Waiting
  /\ harvester' = dropClearedPorts(Blocks(answer.items, answer.accounts), clear)
  /\ answer' = Waiting
  /\ UNCHANGED clear

Next ==
  \/ \E accounts \in SUBSET Account, M \in SUBSET Item :
       Cardinality(M) <= MaxItems /\ Fetch(M, accounts)
  \/ \E C \in SUBSET Port : EditClearPorts(C)
  \/ Render

Spec == Init /\ [][Next]_vars

-----------------------------------------------------------------------------
(* The metadata as it would be if the cleared ports did not exist.         *)
Visible(p) == IF p \in clear THEN 0 ELSE p
Without ==
  {[key |-> m.key, port |-> Visible(m.port), adminPort |-> Visible(m.adminPort)] :
     m \in answer.items}

(* A cleared port is as if it were not there: filtering what was rendered  *)
(* gives what rendering the filtered metadata gives, whichever blocks the  *)
(* endpoints of a proxy ended up in, so that a proxy is never watched      *)
(* through its data ports alone (config/genconfig.go:313-316, 346-348).    *)
ClearedAsIfAbsent ==
  [][answer # Waiting /\ answer' = Waiting =>
       harvester' = Blocks(Without, answer.accounts)]_vars
=============================================================================
