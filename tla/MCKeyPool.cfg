SPECIFICATION Spec
CONSTANTS
    c1 = c1
    c2 = c2
    p1 = p1
    Forgetful <- MCForgetful
    Payments <- MCPayments
    TargetSize = 2
    MaxKeys = 7
SYMMETRY Sym
INVARIANTS TypeOK ReadsSucceed OwnKeys ForgottenKeysRemain KeptKeysStayOut
