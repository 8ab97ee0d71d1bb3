SPECIFICATION Spec
CONSTANTS
    Hosts <- HostSequence
    Whole = "whole"
    Common = "common"
    Base <- BaseGraph
    UsersPerNode = 2
    MaxUsers = 3
    Literals <- Numbers
    Numeric <- Values
INVARIANTS
    NothingInvented
    EntitiesAreWhole
    RoutedHostsSuffice
    CountsEveryone
CHECK_DEADLOCK FALSE
