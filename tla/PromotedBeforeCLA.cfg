\* The option -mem2reg and what the pass manager has run.
CONSTANT MaxVersion = 1
SPECIFICATION Spec
INVARIANTS PromotedBeforeCLA
