CONSTANTS
    CgiTypes = {30, 138}
    Lengths <- MCLengths
SPECIFICATION HeaderSpec
INVARIANTS HeaderLengthTrue AnswerUnderstood RequestUnderstoodIffRegular
