---- MODULE MCFlowEditing ----
EXTENDS FlowEditing, TLC
EditorSymmetry == Permutations(Editors)
====
