------------------------------ MODULE DNSProxy ------------------------------
(***************************************************************************)
(* core/protocol/dns.ts.  A lookup and its timer run side by side: the     *)
(* timer answers with an error and forgets the query, but it cannot stop   *)
(* the lookup, which answers again when it is over.                        *)
(***************************************************************************)
EXTENDS Transport

VARIABLES
    queries,    \* queries[s]: keys of pendingQueries; each has its timer armed
    lookups     \* lookups[s]: ids for which Deno.resolveDns is awaited

dnsVars == <<queries, lookups>>

DnsTypeOK ==
    /\ queries \in [Sessions -> SUBSET Ids]
    /\ lookups \in [Sessions -> SUBSET Ids]

DnsInit ==
    /\ queries = [s \in Sessions |-> {}]
    /\ lookups = [s \in Sessions |-> {}]

\* handleQuery up to its await.  A name that is too long or a record type that
\* is not known is an error at once.
HandleQuery(s, m) ==
    /\ m.type = "DNS_QUERY"
    /\ \/ /\ queries' = [queries EXCEPT ![s] = @ \cup {m.id}]
          /\ lookups' = [lookups EXCEPT ![s] = @ \cup {m.id}]
          /\ UNCHANGED down
       \/ Reply(s, Msg("ERROR", m.id)) /\ UNCHANGED dnsVars

\* Mutation: the timer forgets the query without a word.
QueryTimeout_Silent(s, id) ==
    /\ id \in queries[s]
    /\ queries' = [queries EXCEPT ![s] = @ \ {id}]
    /\ lookups' = [lookups EXCEPT ![s] = @ \ {id}]
    /\ UNCHANGED <<sess, cws, sws, up, down, tstate>>

\* DNS_QUERY_TIMEOUT.
QueryTimeout(s, id) ==
    /\ id \in queries[s]
    /\ queries' = [queries EXCEPT ![s] = @ \ {id}]
    /\ Reply(s, Msg("ERROR", id))
    /\ UNCHANGED <<sess, cws, sws, up, tstate, lookups>>

\* The lookup is over.  Nothing asks whether the timer has answered already.
LookupEnds(s, id) ==
    /\ id \in lookups[s]
    /\ lookups' = [lookups EXCEPT ![s] = @ \ {id}]
    /\ queries' = [queries EXCEPT ![s] = @ \ {id}]
    /\ \E answer \in {"DNS_RESPONSE", "ERROR"} : Reply(s, Msg(answer, id))
    /\ UNCHANGED <<sess, cws, sws, up, tstate>>

DnsStep(s, id) == QueryTimeout(s, id) \/ LookupEnds(s, id)
=============================================================================
