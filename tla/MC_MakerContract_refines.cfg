CONSTANTS
    ONE <- MC_One
    ContractAddr = ContractAddr
    Stranger = Stranger
    C1 = C1
    C2 = C2
    Unparsable = Unparsable
    Senders <- MC_Senders
    Children <- MC_Children
    BpInputs <- MC_BpInputs
    DensityInputs <- MC_DensityInputs
SPECIFICATION Spec
PROPERTIES
    LifecycleSpec
