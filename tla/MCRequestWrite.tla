--------------------------- MODULE MCRequestWrite ---------------------------
(* TLC instances of RequestWrite.                                          *)
EXTENDS RequestWrite

\* A stop hook's urgent event and a prompt's deferred one, which is later.
Stop == [items |-> {"stop"}, reason |-> "stop", at |-> 1, deferred |-> FALSE]
Prompt == [items |-> {"prompt"}, reason |-> "prompt", at |-> 2, deferred |-> TRUE]

MCEvents == {Stop, Prompt}

\* A request an older version wrote, without a token.
Old == [items |-> {"old"}, reasons |-> {"end"}, at |-> 1, deferred |-> FALSE, token |-> NoToken]

MCLegacy == {Old}

Start(r, hooks, others, kill, power) ==
  [request |-> r, event |-> [w \in Writers |-> IF w \in Hooks THEN hooks ELSE others],
   left |-> [kill |-> kill, power |-> power]]

\* A kill with any two events, or a power loss: with two events, or with one
\* event that finds an old request.
KillOrPower ==
  {Start(NoRequest, h, o, 1, 0) : h \in MCEvents, o \in MCEvents} \union
    {Start(NoRequest, Stop, Prompt, 0, 1), Start(Old, Stop, Stop, 0, 1)}

\* A power loss, and nothing else.
Power == {Start(NoRequest, h, o, 0, 1) : h \in MCEvents, o \in MCEvents}
=============================================================================
