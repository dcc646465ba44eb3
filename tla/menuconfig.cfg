\* The interface ends when it is quit.
SPECIFICATION Spec
CHECK_DEADLOCK FALSE
CONSTANTS
    new_kconfig <- NewKconfig
    str_value <- StrValue
    values_of <- ValuesOf
    selection <- Selection
    set_value <- SetValue
    load_config <- LoadConfig
    config_contents <- ConfigContents
    min_config_contents <- MinConfigContents
    uncached <- Uncached
    parent_menu <- ParentMenu
    shown_nodes <- ShownNodes
    searchable <- Searchable
    changeable <- Changeable
    offered <- Offered
    is_y_mode_choice_sym <- IsYModeChoiceSym
    next_value <- NextValue
    check_valid <- CheckValid
    check_raises <- CheckRaises
    needs_save <- NeedsSave
    limited_to_m <- LimitedToM
    Screens <- MCScreens
    ScrollOffset = 1
    MainHelpHeight = 1
    ShowHelpHeight = 3
    JumpHelpHeight = 1
    Trees <- MCTrees
    Uses <- MCUses
    Inputs <- MCInputs
    StoredFiles <- MCStoredFiles
    Terminals <- MCTerminals
    MaxText = 4
    MaxStray = 2
INVARIANTS
    KconfigKnown
    RowOnScreen
    MatchOnScreen
    ShownIsCurrent
    NeverRaises
    UnsavedKnown
PROPERTIES
    ImplementsDisplays
