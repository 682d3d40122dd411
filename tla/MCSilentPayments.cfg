SPECIFICATION Spec
CONSTANTS
    s1 = s1
    s2 = s2
    s3 = s3
    none = none
    Secrets <- MCSecrets
    Invalid <- MCInvalid
    MaxInputs <- MCMaxInputs
    MaxRecipients <- MCMaxRecipients
    LabelBatch <- MCLabelBatch
    GroupLimit <- MCGroupLimit
INVARIANTS
    CallsLegal
    PaymentsFound
