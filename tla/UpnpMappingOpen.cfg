\* Two sessions and one gateway.
CONSTANTS
    MaxGen = 2
    Gateway = {x1}
    Nowhere = Nowhere
SPECIFICATION UpnpSpec
INVARIANT MappingIsOpen
CHECK_DEADLOCK FALSE
