------------------------- MODULE MCCompositeOperation -------------------------
EXTENDS CompositeOperation, TLC

CONSTANTS p1, p2, core, app

Symmetry == Permutations(Proc)

TwoPackages == <<core, app>>
OnePackage  == <<app>>

Plan(m, v) == [mode |-> m, version |-> v]

FirstInstall == {Plan("install", 1)}
Upgrades     == {Plan("upgrade", 2)}

BeforeActive == Place \ {"active", "health", "validated"}
InstallOrReinstall == {Plan("install", 1), Plan("reinstall", 1)}
===============================================================================
