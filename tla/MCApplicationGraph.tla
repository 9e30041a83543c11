------------------------- MODULE MCApplicationGraph -------------------------
EXTENDS ApplicationGraph

CONSTANTS base, lib, app, tool

Of(a, v, needs, from, origin) ==
    [app |-> a, version |-> v, needs |-> needs, upgradeFrom |-> from,
     origin |-> origin]

On(a, kind, v) == [app |-> a, range |-> [kind |-> kind, base |-> v]]

\* base has three minors at Maven, two new major versions, one of them in a
\* working copy that upgrades directly, and a copy in the registry; lib and app
\* depend on it, and so does a tool, which like one of the libs comes from the
\* registry.
Base10  == Of(base, <<1, 0, 0>>, {}, {}, "maven")
Base11  == Of(base, <<1, 1, 0>>, {}, {}, "maven")
Base12  == Of(base, <<1, 2, 1>>, {}, {}, "maven")
Base20  == Of(base, <<2, 0, 0>>, {}, {[kind |-> "tilde", base |-> <<1, 2, 0>>]},
              "directory")
Base21  == Of(base, <<2, 1, 0>>, {}, {}, "maven")
BaseReg == Of(base, <<1, 1, 1>>, {}, {}, "registry")
Lib10   == Of(lib, <<1, 0, 0>>, {On(base, "caret", <<1, 0, 0>>)}, {}, "directory")
Lib11   == Of(lib, <<1, 1, 0>>, {On(base, "caret", <<1, 1, 0>>)}, {}, "directory")
LibReg  == Of(lib, <<1, 0, 1>>, {On(base, "caret", <<1, 0, 0>>)}, {}, "registry")
App10   == Of(app, <<1, 0, 0>>, {On(lib, "caret", <<1, 0, 0>>)}, {}, "maven")
App11   == Of(app, <<1, 1, 0>>, {On(lib, "tilde", <<1, 1, 0>>),
                                 On(base, "caret", <<1, 0, 0>>)}, {}, "maven")
Tool    == Of(tool, <<1, 0, 0>>, {On(lib, "caret", <<1, 0, 0>>)}, {}, "registry")

Packages == {Base10, Base11, Base12, Base20, Base21, BaseReg, Lib10, Lib11, LibReg,
             App10, App11, Tool}

\* What may be given with --dependency-source.
WithSources == {{}, {Lib10}, {Base12, Lib11}}

All == Capability
=============================================================================
