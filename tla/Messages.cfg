SPECIFICATION Spec
INVARIANTS
    ReadersConsistent
    CutsDoNotMatter
    RequestsAreThoseSent
    FirstRuleAnswers
    TextsAreUnderstood
    ValuesAreKept
PROPERTY
    TalkIsUnderstood
CHECK_DEADLOCK FALSE
