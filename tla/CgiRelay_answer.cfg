SPECIFICATION Spec
CONSTANT Outputs <- ExitOutput
INVARIANT
    ScriptIsAnswered
CHECK_DEADLOCK FALSE
