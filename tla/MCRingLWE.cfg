CONSTANTS
    Q = 97
    N = 4
    Root = 22
    UniformPolys <- Uniform
    SmallFields <- Fields
    ErrorSums <- Sums
    Blindings <- Blinds
SPECIFICATION Spec
INVARIANTS
    TypeOK
    MultiplyIsConvolution
    SecretsAgree
    HintlessNeedsMargin
