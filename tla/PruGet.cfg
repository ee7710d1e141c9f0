SPECIFICATION FairSpec
CONSTANT PruPrompt = TRUE
INVARIANTS TypeOK NoDuplicate NoTriggerLeft FreshUnlessLeftover
PROPERTY CommandEnds
