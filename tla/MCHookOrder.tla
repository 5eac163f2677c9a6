----------------------------- MODULE MCHookOrder -----------------------------
(***************************************************************************)
(* Up to four hooks of one directory with any of fifteen declarations, and *)
(* up to two in each of the three directories.                             *)
(***************************************************************************)
EXTENDS HookOrder

CONSTANTS x, y

Declares(p, c, r, a) == [provides |-> p, contributes |-> c, requires |-> r, after |-> a]

MCHooks ==
    {Declares(p, c, {}, {}) : p \in {{}, {x}}, c \in {{}, {Ready}}}
        \cup {Declares({x}, {}, {y}, {}), Declares({y}, {}, {x}, {}), Declares({y}, {}, {}, {x}),
              Declares({x}, {}, {x}, {}), Declares({}, {x}, {}, {y}), Declares({}, {y}, {}, {}),
              Declares({}, {Ready}, {x}, {}), Declares({}, {Ready}, {}, {y}),
              Declares({}, {}, {x, y}, {}), Declares({}, {}, {Ready}, {y}), Declares({}, {}, {y}, {})}

Empty == [n \in Names |-> None]
FewHooks == {None, Declares({}, {}, {}, {}), Declares({y}, {}, {}, {x}), Declares({x}, {}, {y}, {}),
             Declares({}, {Ready}, {x}, {})}
Few == {f \in [Names -> FewHooks] : \A n \in Names : n > 2 => f[n] = None}

MCTrees ==
    {<<Empty, f, Empty>> : f \in [Names -> MCHooks \cup {None}]} \cup Few \X Few \X Few
=============================================================================
