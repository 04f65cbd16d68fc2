----------------------------- MODULE MCSettings -----------------------------
(* A small instance of Settings for TLC: a list with a duplicate check and   *)
(* one without, a guarded dict whose reloader merges, and a credential.      *)
EXTENDS Settings

CONSTANTS x, y, mcp_servers, scheduler_cron, safety_permissions, apikey

Wish(op, key, name, agent) == [op |-> op, key |-> key, name |-> name, agent |-> agent]

\* x is edited by the agent and in the UI, y is what others put in the list;
\* guarded are the agent's change of the dict and its removal of the credential;
\* of the fields of the dict x is admin_users, which is kept, and y is not.
\* The other combinations differ from these by a name, or in who asks once the
\* lock is held.
SomeAsks ==
  {Wish("append", mcp_servers, x, FALSE), Wish("update", mcp_servers, x, FALSE),
   Wish("delete", mcp_servers, x, TRUE), Wish("set", mcp_servers, y, FALSE),
   Wish("append", scheduler_cron, x, FALSE)}
    \cup {Wish("merge", safety_permissions, x, FALSE),
          Wish("set", safety_permissions, y, TRUE)}
    \cup {Wish("set", apikey, x, FALSE), Wish("delete", apikey, x, TRUE)}
=============================================================================
