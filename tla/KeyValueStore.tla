---------------------------- MODULE KeyValueStore ----------------------------
(***************************************************************************)
(* What a vbucket promises its clients: one value for each key, changed and*)
(* read by operations that take effect at one instant.  Memory, disk,      *)
(* eviction, background fetches and bloom filters do not appear.           *)
(*                                                                         *)
(* A value is a positive number, 0 is no document.  An expiry time takes a *)
(* document away at some instant; the expired document lingers until it is *)
(* removed, and only replace can tell.                                     *)
(***************************************************************************)
EXTENDS Naturals

CONSTANTS Keys, Clients, NoValue

VARIABLES
    doc,      \* the value of each key
    expired,  \* the keys whose document expired and was not removed yet
    seen,     \* the value each client read last, for each key
    reply     \* the reply given in the last step, or NoValue

vars == <<doc, expired, seen, reply>>

Init ==
    /\ doc = [k \in Keys |-> 0]
    /\ expired = {}
    /\ seen = [c \in Clients |-> [k \in Keys |-> 0]]
    /\ reply = NoValue

(* The client names a version, and the document is still that version.     *)
Current(c, k) == doc[k] # 0 /\ seen[c][k] = doc[k]

(* What must be so before an operation can give its answer.                *)
May(c, k, op, cas, ret) ==
    CASE ret = "SUCCESS" /\ op \in {"set", "delete"} ->
           /\ cas # 0 => Current(c, k)
           /\ op = "delete" => doc[k] # 0
      [] ret = "SUCCESS" /\ op = "append" -> Current(c, k)
      [] ret = "SUCCESS" /\ op = "incr" -> doc[k] = 0 \/ Current(c, k)
      [] ret = "SUCCESS" /\ op = "add" -> doc[k] = 0
      [] ret = "SUCCESS" /\ op = "replace" -> doc[k] # 0 \/ k \in expired
      [] ret = "SUCCESS" /\ op \in {"get", "getl", "touch"} ->
           doc[k] # 0 /\ reply'.read.value = doc[k]
      [] ret = "NOT_STORED" /\ op = "add" -> doc[k] # 0
      [] ret = "NOT_STORED" /\ op = "append" -> doc[k] = 0
      [] ret \in {"KEY_ENOENT", "DELETED", "LOGICALLY_DELETED"} -> doc[k] = 0
      [] ret \in {"EXISTS", "PERSISTED", "NOT_PERSISTED"} -> doc[k] # 0
      [] OTHER -> TRUE

(* What it does to the document.                                           *)
Effect(k, op, ret) ==
    CASE ret = "SUCCESS" /\ op \in {"set", "add", "replace", "append", "incr", "setWithMeta"} ->
           doc'[k] \notin {0, doc[k]} \/ (doc'[k] = 0 /\ k \in expired')
      [] ret = "SUCCESS" /\ op = "touch" ->
           doc'[k] = doc[k] \/ (doc'[k] = 0 /\ k \in expired')
      [] ret = "SUCCESS" /\ op \in {"delete", "deleteWithMeta"} ->
           doc'[k] = 0 /\ k \notin expired'
      [] OTHER -> doc'[k] = doc[k] /\ expired' \subseteq expired

Respond(c, k) ==
    /\ reply' # NoValue /\ reply'.client = c /\ reply'.key = k
    /\ May(c, k, reply'.op, reply'.cas, reply'.ret)
    /\ Effect(k, reply'.op, reply'.ret)
    /\ \A j \in Keys \ {k} : doc'[j] = doc[j] /\ (j \in expired' => j \in expired)
    /\ seen' = IF reply'.read.cas = 0 THEN seen
               ELSE [seen EXCEPT ![c][k] = reply'.read.value]

(* An operation of two halves reads the document before it stores one.     *)
ReadFirst(c, k) ==
    /\ reply' = NoValue
    /\ doc[k] # 0 /\ seen' = [seen EXCEPT ![c][k] = doc[k]]
    /\ doc' = doc /\ expired' \subseteq expired

Expire ==
    /\ reply' = NoValue
    /\ \E K \in SUBSET {k \in Keys : doc[k] # 0} :
          /\ doc' = [k \in Keys |-> IF k \in K THEN 0 ELSE doc[k]]
          /\ expired' = expired \cup K
    /\ UNCHANGED seen

(* Expired documents are removed.                                          *)
Purge ==
    /\ reply' = NoValue
    /\ expired' \subseteq expired
    /\ UNCHANGED <<doc, seen>>

Next ==
    \/ \E c \in Clients, k \in Keys : Respond(c, k) \/ ReadFirst(c, k)
    \/ Expire
    \/ Purge

Spec == Init /\ [][Next]_vars

=============================================================================
