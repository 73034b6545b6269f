SPECIFICATION Spec
CONSTANTS
    Pages = {0, 1, 2, 3}
    Tpp = 2
    Seqs = {s1, s2}
    Prompts <- MCPrompts
    Tokens = {1}
    MaxLen = 5
INVARIANTS RefsExact RowsRight DryMeansPinned
