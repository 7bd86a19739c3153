-------------------------- MODULE MCInteractiveSession --------------------------
EXTENDS InteractiveSession

MCSizes == {80, 100}
=============================================================================
