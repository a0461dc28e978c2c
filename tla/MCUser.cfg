SPECIFICATION MCSpec
INVARIANTS ParsesGrammar ShellRight HeapRight GrepLines
PROPERTIES PromptReturns SieveEnds
CHECK_DEADLOCK FALSE
